---------------------------- MODULE Spec2Model ----------------------------
(***************************************************************************)
(* Model of the internet-tracker sample pipeline: the worker               *)
(* (src/unnamed/part_000: CircularBuffer, computeMetrics, lttbDownsample,  *)
(* filterRange, prepareSnapshot, handleMessage) and the coordinator that   *)
(* drives it (src/app/static/app.js: startSSE, scheduleSSEReconnect,       *)
(* fetchAndReseedIfNeeded, initWorker, armFallback, initPauseButton,       *)
(* updateChartsFromWorker, seedWorkerIfEmpty, persistSnapshot,             *)
(* restoreFromCache).                                                      *)
(*                                                                         *)
(* Conventions.                                                            *)
(*  - A sample is a record [ts, success, latency_ms].  ts is the epoch     *)
(*    value Date.parse yields for the sample's timestamp string, in model  *)
(*    clock units; latency_ms = NoLat stands for null.                     *)
(*  - NullSample stands for the JavaScript value null sitting where a      *)
(*    sample is expected: reading a property of it throws a TypeError.     *)
(*  - A function that can throw is modelled by a predicate <name>Throws    *)
(*    and a value operator that is only evaluated when it does not throw.  *)
(*  - Sequences are 1-based; the operators that model array code say       *)
(*    where they shift JavaScript's 0-based indices.                       *)
(*  - The coordinator's handlers run to completion on one thread; each is  *)
(*    one action, and an await splits a handler into the part before the   *)
(*    request and the part that runs when the response arrives.            *)
(*  - The coordinator's clock counts units of 1000 ms in the watchdog      *)
(*    scenario and units of 250 ms in the scenarios of the page, where     *)
(*    the 750 ms of the render throttle and the 300 ms of the seed timer   *)
(*    matter.  Writes to localStorage and the DOM updates of a render are  *)
(*    taken to succeed.                                                    *)
(*    The Worker constructor is taken to succeed; the EventSource          *)
(*    constructor may throw, as the catch of startSSE provides for.        *)
(***************************************************************************)
EXTENDS Integers, Sequences, FiniteSets, TLC

VARIABLES
    buffer,            \* the worker's CircularBuffer (part_000:44)
    currentRange,      \* the worker's currentRange (part_000:45)
    decimationTarget,  \* the worker's decimationTarget (part_000:46)
    now,               \* Date.now() as the worker sees it
    outbox,            \* what the last processed command posted (postMessage)
    lastCmd,           \* type of the last processed command, "" before any
    removed,           \* what the last step's trimBefore removed, -1 if it made no call
    hist,              \* ghost: items pushed since the buffer was constructed
    trimmed,           \* ghost: entries removed by trimBefore since then
    scn,               \* ghost: what a command scenario has recorded so far
    dData,             \* decimator harness: the input sequence
    dTarget,           \* decimator harness: the target
    dOut,              \* decimator harness: the output, <<>> before the call
    dDone,             \* decimator harness: whether the call was made
    mData,             \* aggregate harness: the input sequence
    mOut,              \* aggregate harness: the metrics, Absent before the call
    mDone,             \* aggregate harness: whether the call was made
    appRange,          \* app.js:4, the coordinator's currentRange
    paused,            \* app.js:7
    worker,            \* app.js:8, TRUE when the Worker was created
    sse,               \* app.js:5, the id of the EventSource held, 0 for null
    conns,             \* the EventSource objects created and not closed: id -> readyState
    sseReconnectAttempts,  \* app.js:14
    timers,            \* pending setTimeout callbacks of scheduleSSEReconnect
    fetches,           \* historical fetches awaiting their response
    inbox,             \* commands posted to the worker and not yet handled
    cnow,              \* Date.now() as the coordinator sees it
    lastWorkerUpdate,  \* app.js:10
    consecutiveFallbacks,  \* app.js:12
    watchdogDue,       \* when the setInterval callback of armFallback next runs
    appTarget,         \* app.js:9, the coordinator's decimationTarget
    lastChartRender,   \* app.js:6
    view,              \* what the page shows: the metrics panel and the charts' series
    snapshotSlot,      \* localStorage[PERSIST_KEY_SNAPSHOT], Absent when not set
    glog               \* ghost: what the coordinator scenarios have recorded

vars == <<buffer, currentRange, decimationTarget, now, outbox, lastCmd,
          removed, hist, trimmed, scn, dData, dTarget, dOut, dDone,
          mData, mOut, mDone, appRange, paused, worker, sse, conns,
          sseReconnectAttempts, timers, fetches, inbox, cnow,
          lastWorkerUpdate, consecutiveFallbacks, watchdogDue, appTarget,
          lastChartRender, view, snapshotSlot, glog>>

engVars   == <<buffer, currentRange, decimationTarget, now, outbox, lastCmd, removed>>
storeVars == <<hist, trimmed>>
decVars   == <<dData, dTarget, dOut, dDone>>
aggVars   == <<mData, mOut, mDone>>
sseVars   == <<paused, sse, conns, sseReconnectAttempts, timers>>
dogVars   == <<cnow, lastWorkerUpdate, consecutiveFallbacks, watchdogDue>>
viewVars  == <<appTarget, lastChartRender, view, snapshotSlot>>
coVars    == <<appRange, worker, sseVars, dogVars, viewVars, fetches, inbox, glog>>
restVars  == <<aggVars, coVars>>

---------------------------------------------------------------------------
(* Bounds of the model *)

\* Capacity of the store in the model; the worker uses MAX_CAP = 50000.
Capacity == 3

\* The model clock runs over 0..MaxNow.
MaxNow == 2

\* Longest input handed to the decimator harness.
MaxData == 5

\* Longest sample list carried by a bulkAdd or replaceAll command.
MaxBulk == 2

---------------------------------------------------------------------------
(* Samples *)

NoLat == 0 - 1

NullSample == [null |-> TRUE]

Empty == [empty |-> TRUE]

IsNull(s) == DOMAIN s = {"null"}

IsEmpty(s) == DOMAIN s = {"empty"}

\* JavaScript's !x for a buffer slot: undefined (never written) or null.
Falsy(s) == IsNull(s) \/ IsEmpty(s)

Times == 0..MaxNow

\* Timestamps of the samples fed to the engine: an older and a newer one.
Stamps == {0, 1}

MkSample(t, ok, lat) == [ts |-> t, success |-> ok, latency_ms |-> lat]

\* Well-formed samples the engine is fed: one per timestamp.
EngSamples == {MkSample(t, TRUE, 10 * (t + 1)) : t \in Stamps}

\* What a live message can carry as its sample: a well-formed one, or null.
LiveSamples == EngSamples \cup {NullSample}

HasNull(seq) == \E i \in 1..Len(seq) : IsNull(seq[i])

---------------------------------------------------------------------------
(* CircularBuffer, part_000:4-40 *)

CircularBuffer(capacity) ==
    [capacity |-> capacity,
     buffer   |-> [i \in 0..(capacity - 1) |-> Empty],
     start    |-> 0,
     length   |-> 0]

\* mutant: the full branch overwrites the oldest slot but forgets to advance start
pushNoAdvance(b, item) ==
    IF b.length < b.capacity
    THEN [b EXCEPT !.buffer[(b.start + b.length) % b.capacity] = item,
                   !.length = b.length + 1]
    ELSE [b EXCEPT !.buffer[b.start] = item]

\* mutant: the store keeps growing when it is full instead of overwriting
pushNoCap(b, item) ==
    [b EXCEPT !.buffer[(b.start + b.length) % b.capacity] = item,
              !.length = b.length + 1]

push(b, item) ==
    IF b.length < b.capacity
    THEN [b EXCEPT !.buffer[(b.start + b.length) % b.capacity] = item,
                   !.length = b.length + 1]
    ELSE [b EXCEPT !.buffer[b.start] = item,
                   !.start = (b.start + 1) % b.capacity]

\* arr[i] of the code is toArray(b)[i + 1]
toArray(b) == [i \in 1..b.length |-> b.buffer[(b.start + (i - 1)) % b.capacity]]

RECURSIVE trimLoop(_, _)
trimLoop(b, cutoff) ==
    IF b.length > 0
    THEN LET first == b.buffer[b.start]
         IN  IF Falsy(first) \/ first.ts >= cutoff
             THEN b
             ELSE trimLoop([b EXCEPT !.start = (b.start + 1) % b.capacity,
                                     !.length = b.length - 1], cutoff)
    ELSE b

\* mutant: removes at most one entry (if instead of while)
trimBeforeOnce(b, cutoff) ==
    IF b.length = 0 THEN b
    ELSE LET first == b.buffer[b.start]
         IN  IF Falsy(first) \/ first.ts >= cutoff
             THEN b
             ELSE [b EXCEPT !.start = (b.start + 1) % b.capacity,
                            !.length = b.length - 1]

\* mutant: the loop also removes an oldest entry stamped exactly at the cutoff
trimBeforeInclusive(b, cutoff) ==
    LET RECURSIVE Loop(_)
        Loop(c) ==
            IF c.length > 0
            THEN LET first == c.buffer[c.start]
                 IN  IF Falsy(first) \/ first.ts > cutoff
                     THEN c
                     ELSE Loop([c EXCEPT !.start = (c.start + 1) % c.capacity,
                                         !.length = c.length - 1])
            ELSE c
    IN  IF b.length = 0 THEN b ELSE Loop(b)

\* cutoff is Date.parse(timestampIso); the caller's toISOString / Date.parse
\* pair returns the millisecond value it was given.
trimBefore(b, cutoff) == IF b.length = 0 THEN b ELSE trimLoop(b, cutoff)

RECURSIVE pushAll(_, _)
pushAll(b, samples) ==
    IF samples = <<>> THEN b ELSE pushAll(push(b, Head(samples)), Tail(samples))

---------------------------------------------------------------------------
(* RANGE_WINDOWS and the worker's constants, part_000:42-46 *)

\* The three window lengths in model clock units.  The code's values are
\* 5, 60 and 1440 minutes in milliseconds; the model keeps their order.
RANGE_WINDOWS == ("5m" :> 1) @@ ("1h" :> 2) @@ ("24h" :> 3)

Ranges == {"5m", "1h", "all"}

\* currentRange !== 'all' and RANGE_WINDOWS[currentRange] is truthy
HasSpan(range) == range /= "all" /\ range \in DOMAIN RANGE_WINDOWS

---------------------------------------------------------------------------
(* computeMetrics, part_000:48-72 *)

\* Numbers the code computes by division are kept as exact fractions.
Frac(n, d) == [num |-> n, den |-> d]

\* JavaScript null in a metrics field
Absent == [absent |-> TRUE]

Abs(x) == IF x < 0 THEN 0 - x ELSE x

RECURSIVE SumSeq(_)
SumSeq(q) == IF q = <<>> THEN 0 ELSE Head(q) + SumSeq(Tail(q))

RECURSIVE MinSeq(_)
MinSeq(q) ==
    IF Len(q) = 1 THEN q[1]
    ELSE LET m == MinSeq(Tail(q)) IN IF q[1] < m THEN q[1] ELSE m

RECURSIVE MaxSeq(_)
MaxSeq(q) ==
    IF Len(q) = 1 THEN q[1]
    ELSE LET m == MaxSeq(Tail(q)) IN IF q[1] > m THEN q[1] ELSE m

\* s.success && s.latency_ms != null
HasLatency(s) == s.success /\ s.latency_ms /= NoLat

\* mutant: the success test is dropped, every present latency is collected
RECURSIVE LatenciesOfAll(_)
LatenciesOfAll(samples) ==
    IF samples = <<>> THEN <<>>
    ELSE (IF Head(samples).latency_ms /= NoLat THEN <<Head(samples).latency_ms>>
                                               ELSE <<>>)
         \o LatenciesOfAll(Tail(samples))

\* the latencies array of lines 49-56, in input order
RECURSIVE Latencies(_)
Latencies(samples) ==
    IF samples = <<>> THEN <<>>
    ELSE (IF HasLatency(Head(samples)) THEN <<Head(samples).latency_ms>> ELSE <<>>)
         \o Latencies(Tail(samples))

\* sumDiff of lines 66-67
RECURSIVE SumAbsDiff(_)
SumAbsDiff(q) ==
    IF Len(q) < 2 THEN 0 ELSE Abs(q[2] - q[1]) + SumAbsDiff(Tail(q))

\* the loop reads s.success of every element
computeMetricsThrows(samples) == HasNull(samples)

\* mutant: the loss is left a fraction of 1 instead of a percentage
computeMetricsLossRatio(samples) ==
    LET latencies == Latencies(samples)
        successes == Cardinality({i \in 1..Len(samples) : samples[i].success})
        total     == Len(samples)
        failures  == total - successes
        n         == Len(latencies)
    IN  [count             |-> total,
         successes         |-> successes,
         failures          |-> failures,
         packet_loss_pct   |-> IF total /= 0 THEN Frac(failures, total)
                                             ELSE Frac(0, 1),
         avg_latency_ms    |-> IF n > 0 THEN Frac(SumSeq(latencies), n) ELSE Absent,
         min_latency_ms    |-> IF n > 0 THEN Frac(MinSeq(latencies), 1) ELSE Absent,
         max_latency_ms    |-> IF n > 0 THEN Frac(MaxSeq(latencies), 1) ELSE Absent,
         jitter_avg_abs_ms |-> IF n > 1 THEN Frac(SumAbsDiff(latencies), n - 1)
                                        ELSE Absent]

computeMetrics(samples) ==
    LET latencies == Latencies(samples)
        successes == Cardinality({i \in 1..Len(samples) : samples[i].success})
        total     == Len(samples)
        failures  == total - successes
        n         == Len(latencies)
    IN  [count             |-> total,
         successes         |-> successes,
         failures          |-> failures,
         packet_loss_pct   |-> IF total /= 0 THEN Frac(failures * 100, total)
                                             ELSE Frac(0, 1),
         avg_latency_ms    |-> IF n > 0 THEN Frac(SumSeq(latencies), n) ELSE Absent,
         min_latency_ms    |-> IF n > 0 THEN Frac(MinSeq(latencies), 1) ELSE Absent,
         max_latency_ms    |-> IF n > 0 THEN Frac(MaxSeq(latencies), 1) ELSE Absent,
         jitter_avg_abs_ms |-> IF n > 1 THEN Frac(SumAbsDiff(latencies), n - 1)
                                        ELSE Absent]

---------------------------------------------------------------------------
(* lttbDownsample, part_000:74-100 *)

\* Math.floor(k * bucketSize) with bucketSize = (n - 2) / (target - 2), for
\* target > 2, computed exactly.  (The code's floating-point product agrees
\* with the exact value for every n below 17.)
FloorMul(k, n, target) == (k * (n - 2)) \div (target - 2)

Min2(a, b) == IF a < b THEN a ELSE b

\* p.latency_ms || 0
LatOr0(p) == IF p.latency_ms = NoLat THEN 0 ELSE p.latency_ms

\* 0-based index k of the code's data is data[k + 1] here.
At(data, k) == data[k + 1]

\* The centroid of lines 86-89 as sums: <<avgX * c, avgY * c, c>>, over the
\* 0-based indices lo..hi-1, falling back to data[a].
Centroid(data, lo, hi, a) ==
    LET idx == {k \in lo..(hi - 1) : At(data, k).latency_ms /= NoLat}
        xs  == [k \in idx |-> At(data, k).ts]
        ys  == [k \in idx |-> At(data, k).latency_ms]
        RECURSIVE SumOver(_, _)
        SumOver(f, S) ==
            IF S = {} THEN 0
            ELSE LET k == CHOOSE x \in S : TRUE IN f[k] + SumOver(f, S \ {k})
    IN  IF idx = {}
        THEN <<At(data, a).ts, LatOr0(At(data, a)), 1>>
        ELSE <<SumOver(xs, idx), SumOver(ys, idx), Cardinality(idx)>>

\* The area of line 92 multiplied by c * c, c the centroid's count: the
\* factor is the same for every candidate of one bucket.
Area(data, a, k, cen) ==
    LET c  == cen[3]
        ax == At(data, a).ts * c - cen[1]
        ay == LatOr0(At(data, a)) * c - cen[2]
        px == At(data, k).ts * c - cen[1]
        py == LatOr0(At(data, k)) * c - cen[2]
    IN  Abs(ax * py - px * ay)

\* mutant: ties keep the last candidate (>= instead of >)
RECURSIVE ChooseLastMax(_, _, _, _, _, _, _)
ChooseLastMax(data, a, cen, k, hi, maxArea, chosen) ==
    IF k >= hi THEN chosen
    ELSE LET area == Area(data, a, k, cen)
         IN  IF area >= maxArea
             THEN ChooseLastMax(data, a, cen, k + 1, hi, area, k)
             ELSE ChooseLastMax(data, a, cen, k + 1, hi, maxArea, chosen)

\* The loop of lines 90-94 over the 0-based indices k..hi-1; chosen is the
\* index of the chosen point, -1 while none is chosen.
RECURSIVE ChooseMax(_, _, _, _, _, _, _)
ChooseMax(data, a, cen, k, hi, maxArea, chosen) ==
    IF k >= hi THEN chosen
    ELSE LET area == Area(data, a, k, cen)
         IN  IF area > maxArea
             THEN ChooseMax(data, a, cen, k + 1, hi, area, k)
             ELSE ChooseMax(data, a, cen, k + 1, hi, maxArea, chosen)

\* The loop of lines 79-97 from iteration i on; sampled holds 0-based indices.
\* Array.slice clamps both ends of a range to the array's length.
RECURSIVE LttbLoop(_, _, _, _, _)
LttbLoop(data, target, i, a, sampled) ==
    LET n == Len(data)
    IN  IF i >= target - 2
        THEN Append(sampled, n - 1)
        ELSE LET rangeStart    == FloorMul(i + 1, n, target) + 1
                 rangeEnd      == FloorMul(i + 2, n, target) + 1
                 avgRangeStart == FloorMul(i, n, target) + 1
                 avgRangeEnd   == FloorMul(i + 1, n, target) + 1
                 cen    == Centroid(data, Min2(avgRangeStart, n),
                                    Min2(avgRangeEnd, n), a)
                 chosen == ChooseMax(data, a, cen, Min2(rangeStart, n),
                                     Min2(rangeEnd, n), 0 - 1, 0 - 1)
             IN  LttbLoop(data, target, i + 1, rangeStart,
                          IF chosen >= 0 THEN Append(sampled, chosen) ELSE sampled)

\* The 0-based input indices of the points lttbDownsample returns.
lttbIndices(data, target) ==
    IF Len(data) <= target
    THEN [i \in 1..Len(data) |-> i - 1]
    ELSE LttbLoop(data, target, 0, 0, <<0>>)

\* With data.length > target the loop body, when it runs at all, reads a
\* property of every element its ranges cover, and those cover every index.
lttbDownsampleThrows(data, target) ==
    Len(data) > target /\ target > 2 /\ HasNull(data)

\* mutant: the last input point is not appended
lttbDownsampleNoLast(data, target) ==
    IF Len(data) <= target
    THEN data
    ELSE LET idx == LttbLoop(data, target, 0, 0, <<0>>)
         IN  [j \in 1..(Len(idx) - 1) |-> At(data, idx[j])]

\* mutant: the identity branch is taken only below the target (< instead of <=)
lttbDownsampleStrict(data, target) ==
    IF Len(data) < target \/ Len(data) = 0
    THEN data
    ELSE LET idx == LttbLoop(data, target, 0, 0, <<0>>)
         IN  [j \in 1..Len(idx) |-> At(data, idx[j])]

\* data[k] for a 0-based k that may lie outside the array: undefined there.
AtOrUndefined(data, k) == IF k + 1 \in DOMAIN data THEN data[k + 1] ELSE Empty

\* With an empty data and a negative target the first and the last point of
\* lines 77 and 98 are data[0] and data[-1], both undefined.
lttbDownsample(data, target) ==
    IF Len(data) <= target
    THEN data
    ELSE LET idx == LttbLoop(data, target, 0, 0, <<0>>)
         IN  [j \in 1..Len(idx) |-> AtOrUndefined(data, idx[j])]

---------------------------------------------------------------------------
(* filterRange and prepareSnapshot, part_000:102-115 *)

\* the filter callback reads s.ts of every element
filterRangeThrows(arr, range) == HasSpan(range) /\ HasNull(arr)

InWindow(s, cutoff) == s.ts >= cutoff

filterRange(arr, range, t) ==
    IF ~HasSpan(range)
    THEN arr
    ELSE LET cutoff == t - RANGE_WINDOWS[range]
             Keep(s) == InWindow(s, cutoff)
         IN  SelectSeq(arr, Keep)

prepareSnapshotThrows(b, range, target, t) ==
    \/ filterRangeThrows(toArray(b), range)
    \/ LET full == filterRange(toArray(b), range, t)
       IN  lttbDownsampleThrows(full, target) \/ computeMetricsThrows(full)

\* mutant: the metrics are computed over the decimated series
prepareSnapshotDecimatedMetrics(b, range, target, t) ==
    LET full      == filterRange(toArray(b), range, t)
        decimated == lttbDownsample(full, target)
    IN  [metrics |-> computeMetrics(decimated), samples |-> decimated]

prepareSnapshot(b, range, target, t) ==
    LET full      == filterRange(toArray(b), range, t)
        decimated == lttbDownsample(full, target)
        metrics   == computeMetrics(full)
    IN  [metrics |-> metrics, samples |-> decimated]

---------------------------------------------------------------------------
(* handleMessage, part_000:117-165 *)

DefaultRange == "5m"

DefaultTarget == 400

\* MAX_CAP of part_000:43, at the model's capacity
MAX_CAP == Capacity

\* Lines 122-128, 133-139, 145-151: trim when the range has a window.  The
\* result carries the buffer and what trimBefore removed (-1: not called).
TrimToWindow(b, range, t) ==
    IF HasSpan(range)
    THEN LET nb == trimBefore(b, t - RANGE_WINDOWS[range])
         IN  [buffer |-> nb, removed |-> b.length - nb.length]
    ELSE [buffer |-> b, removed |-> 0 - 1]

\* mutant: bulkAdd without its empty-store guard
ApplyCommandNoGuard(b, range, target, t, cmd) ==
    LET same == [buffer |-> b, removed |-> 0 - 1]
        upd  == CASE cmd.type = "add" ->
                       TrimToWindow(push(b, cmd.sample), range, t)
                  [] cmd.type = "bulkAdd" ->
                       TrimToWindow(pushAll(b, cmd.samples), range, t)
                  [] cmd.type = "replaceAll" ->
                       TrimToWindow(pushAll(CircularBuffer(Capacity), cmd.samples),
                                    range, t)
                  [] OTHER -> same
    IN  [buffer           |-> upd.buffer,
         removed          |-> upd.removed,
         currentRange     |-> IF cmd.type = "setRange" THEN cmd.range ELSE range,
         decimationTarget |-> IF cmd.type = "setDecimation" THEN cmd.target
                                                            ELSE target]

\* mutant: replaceAll pushes onto the existing buffer instead of a new one
ApplyCommandNoReset(b, range, target, t, cmd) ==
    LET same == [buffer |-> b, removed |-> 0 - 1]
        upd  == CASE cmd.type = "add" ->
                       TrimToWindow(push(b, cmd.sample), range, t)
                  [] cmd.type = "bulkAdd" ->
                       IF b.length = 0
                       THEN TrimToWindow(pushAll(b, cmd.samples), range, t)
                       ELSE same
                  [] cmd.type = "replaceAll" ->
                       TrimToWindow(pushAll(b, cmd.samples), range, t)
                  [] OTHER -> same
    IN  [buffer           |-> upd.buffer,
         removed          |-> upd.removed,
         currentRange     |-> IF cmd.type = "setRange" THEN cmd.range ELSE range,
         decimationTarget |-> IF cmd.type = "setDecimation" THEN cmd.target
                                                            ELSE target]

\* mutant: setRange evicts by the new window at once
ApplyCommandEvictOnSetRange(b, range, target, t, cmd) ==
    LET same == [buffer |-> b, removed |-> 0 - 1]
        upd  == CASE cmd.type = "add" ->
                       TrimToWindow(push(b, cmd.sample), range, t)
                  [] cmd.type = "bulkAdd" ->
                       IF b.length = 0
                       THEN TrimToWindow(pushAll(b, cmd.samples), range, t)
                       ELSE same
                  [] cmd.type = "replaceAll" ->
                       TrimToWindow(pushAll(CircularBuffer(MAX_CAP), cmd.samples),
                                    range, t)
                  [] cmd.type = "setRange" ->
                       TrimToWindow(b, cmd.range, t)
                  [] OTHER -> same
    IN  [buffer           |-> upd.buffer,
         removed          |-> upd.removed,
         currentRange     |-> IF cmd.type = "setRange" THEN cmd.range ELSE range,
         decimationTarget |-> IF cmd.type = "setDecimation" THEN cmd.target
                                                            ELSE target]

\* The if-chain of lines 119-157, without the replies: the engine's buffer and
\* configuration after the command.
ApplyCommand(b, range, target, t, cmd) ==
    LET same == [buffer |-> b, removed |-> 0 - 1]
        upd  == CASE cmd.type = "add" ->
                       TrimToWindow(push(b, cmd.sample), range, t)
                  [] cmd.type = "bulkAdd" ->
                       IF b.length = 0
                       THEN TrimToWindow(pushAll(b, cmd.samples), range, t)
                       ELSE same
                  [] cmd.type = "replaceAll" ->
                       TrimToWindow(pushAll(CircularBuffer(MAX_CAP), cmd.samples),
                                    range, t)
                  [] OTHER -> same
    IN  [buffer           |-> upd.buffer,
         removed          |-> upd.removed,
         currentRange     |-> IF cmd.type = "setRange" THEN cmd.range ELSE range,
         decimationTarget |-> IF cmd.type = "setDecimation" THEN cmd.target
                                                            ELSE target]

\* Lines 157-164: the snapshot branch posts a 'snapshot' and returns; every
\* other branch falls through to the 'update' post.  A throw in
\* prepareSnapshot ends the handler before postMessage.
ReplyType(cmd) == IF cmd.type = "snapshot" THEN "snapshot" ELSE "update"

\* mutant: the two config setters return without posting
handleMessageQuietSetters(b, range, target, t, cmd) ==
    LET st == ApplyCommand(b, range, target, t, cmd)
    IN  [buffer           |-> st.buffer,
         removed          |-> st.removed,
         currentRange     |-> st.currentRange,
         decimationTarget |-> st.decimationTarget,
         outbox |->
            IF \/ cmd.type \in {"setRange", "setDecimation"}
               \/ prepareSnapshotThrows(st.buffer, st.currentRange,
                                        st.decimationTarget, t)
            THEN <<>>
            ELSE <<[type    |-> ReplyType(cmd),
                    payload |-> prepareSnapshot(st.buffer, st.currentRange,
                                                st.decimationTarget, t)]>>]

\* mutant: the reply is computed before the command is applied
handleMessageReplyFirst(b, range, target, t, cmd) ==
    LET st == ApplyCommand(b, range, target, t, cmd)
    IN  [buffer           |-> st.buffer,
         removed          |-> st.removed,
         currentRange     |-> st.currentRange,
         decimationTarget |-> st.decimationTarget,
         outbox |->
            IF prepareSnapshotThrows(b, range, target, t)
            THEN <<>>
            ELSE <<[type    |-> ReplyType(cmd),
                    payload |-> prepareSnapshot(b, range, target, t)]>>]

handleMessage(b, range, target, t, cmd) ==
    LET st == ApplyCommand(b, range, target, t, cmd)
    IN  [buffer           |-> st.buffer,
         removed          |-> st.removed,
         currentRange     |-> st.currentRange,
         decimationTarget |-> st.decimationTarget,
         outbox |->
            IF prepareSnapshotThrows(st.buffer, st.currentRange,
                                     st.decimationTarget, t)
            THEN <<>>
            ELSE <<[type    |-> ReplyType(cmd),
                    payload |-> prepareSnapshot(st.buffer, st.currentRange,
                                                st.decimationTarget, t)]>>]

---------------------------------------------------------------------------
(* The engine: one action per command type *)

\* Targets a setDecimation command carries.
Targets == {2, DefaultTarget}

\* Sample lists a bulkAdd or replaceAll command carries.
SeqsUpTo(S, n) == UNION {[1..k -> S] : k \in 0..n}

BulkLists == SeqsUpTo(EngSamples, MaxBulk)

\* self.onmessage = handleMessage: the whole handler is one step, taken at
\* one reading of the clock.
Process(cmd) ==
    \E r \in {handleMessage(buffer, currentRange, decimationTarget, now, cmd)} :
        /\ buffer' = r.buffer
        /\ removed' = r.removed
        /\ currentRange' = r.currentRange
        /\ decimationTarget' = r.decimationTarget
        /\ outbox' = r.outbox
        /\ lastCmd' = cmd.type
        /\ now' = now

Add == \E s \in LiveSamples : Process([type |-> "add", sample |-> s])

BulkAdd == \E xs \in BulkLists : Process([type |-> "bulkAdd", samples |-> xs])

ReplaceAll == \E xs \in BulkLists : Process([type |-> "replaceAll", samples |-> xs])

SetRange == \E r \in Ranges : Process([type |-> "setRange", range |-> r])

SetDecimation == \E t \in Targets : Process([type |-> "setDecimation", target |-> t])

Snapshot == Process([type |-> "snapshot"])

\* Targets below 2, which handleMessage stores as they come (line 156).
InvalidTargets == {0 - 1, 0, 1}

SetInvalidDecimation ==
    \E t \in InvalidTargets : Process([type |-> "setDecimation", target |-> t])

\* Time passes while the engine is idle; the reply has been delivered.
Tick ==
    /\ now < MaxNow
    /\ now' = now + 1
    /\ outbox' = <<>>
    /\ lastCmd' = "idle"
    /\ removed' = 0 - 1
    /\ UNCHANGED <<buffer, currentRange, decimationTarget>>

NoScn == [phase |-> 0]

EngineInit ==
    /\ buffer = CircularBuffer(MAX_CAP)
    /\ currentRange = DefaultRange
    /\ decimationTarget = DefaultTarget
    /\ now \in Times
    /\ outbox = <<>>
    /\ lastCmd = "idle"
    /\ removed = 0 - 1

StoreIdle == hist = <<>> /\ trimmed = 0

DecIdle == dData = <<>> /\ dTarget = 0 /\ dOut = <<>> /\ dDone = FALSE

AggIdle == mData = <<>> /\ mOut = Absent /\ mDone = FALSE

NoLog == [k |-> 0]

\* Nothing shown yet: empty metrics panel, empty charts.
NoView == [metrics |-> Absent, series |-> <<>>]

\* The declarations of app.js:6 and 9 with nothing in localStorage, and the
\* page as it loads.
ViewIdle ==
    /\ appTarget = DefaultTarget
    /\ lastChartRender = 0
    /\ view = NoView
    /\ snapshotSlot = Absent

\* The coordinator before init() has run: the declarations of app.js:4-14.
CoIdle ==
    /\ ViewIdle
    /\ appRange = DefaultRange
    /\ paused = FALSE
    /\ worker = FALSE
    /\ sse = 0
    /\ conns = <<>>
    /\ sseReconnectAttempts = 0
    /\ timers = {}
    /\ fetches = {}
    /\ inbox = <<>>
    /\ cnow = 0
    /\ lastWorkerUpdate = 0
    /\ consecutiveFallbacks = 0
    /\ watchdogDue = 0
    /\ glog = NoLog

RestIdle == AggIdle /\ CoIdle

Init == EngineInit /\ StoreIdle /\ DecIdle /\ scn = NoScn /\ RestIdle

Next ==
    \/ Add /\ UNCHANGED <<storeVars, decVars, scn, restVars>>
    \/ BulkAdd /\ UNCHANGED <<storeVars, decVars, scn, restVars>>
    \/ ReplaceAll /\ UNCHANGED <<storeVars, decVars, scn, restVars>>
    \/ SetRange /\ UNCHANGED <<storeVars, decVars, scn, restVars>>
    \/ SetDecimation /\ UNCHANGED <<storeVars, decVars, scn, restVars>>
    \/ Snapshot /\ UNCHANGED <<storeVars, decVars, scn, restVars>>
    \/ Tick /\ UNCHANGED <<storeVars, decVars, scn, restVars>>

Spec == Init /\ [][Next]_vars

\* The engine fed live samples while setDecimation carries targets below 2.
TargetNext ==
    \/ Add /\ UNCHANGED <<storeVars, decVars, scn, restVars>>
    \/ SetRange /\ UNCHANGED <<storeVars, decVars, scn, restVars>>
    \/ SetInvalidDecimation /\ UNCHANGED <<storeVars, decVars, scn, restVars>>
    \/ Snapshot /\ UNCHANGED <<storeVars, decVars, scn, restVars>>
    \/ Tick /\ UNCHANGED <<storeVars, decVars, scn, restVars>>

SpecTarget == Init /\ [][TargetNext]_vars

---------------------------------------------------------------------------
(* The store alone: pushes and trims on one CircularBuffer *)

MaxAppends == Capacity + 2

StoreInit ==
    /\ buffer = CircularBuffer(MAX_CAP)
    /\ currentRange = DefaultRange
    /\ decimationTarget = DefaultTarget
    /\ now = 0
    /\ outbox = <<>>
    /\ lastCmd = "idle"
    /\ removed = 0 - 1
    /\ StoreIdle
    /\ DecIdle
    /\ scn = NoScn
    /\ RestIdle

StorePush ==
    /\ Len(hist) < MaxAppends
    /\ \E item \in LiveSamples :
          /\ buffer' = push(buffer, item)
          /\ hist' = Append(hist, item)
    /\ removed' = 0 - 1
    /\ UNCHANGED <<currentRange, decimationTarget, now, outbox, lastCmd,
                   trimmed, decVars, scn, restVars>>

StoreTrim ==
    /\ \E cutoff \in Times :
          /\ buffer' = trimBefore(buffer, cutoff)
          /\ removed' = buffer.length - buffer'.length
          /\ trimmed' = trimmed + (buffer.length - buffer'.length)
          /\ scn' = [phase |-> 0, cutoff |-> cutoff, before |-> buffer]
    /\ UNCHANGED <<currentRange, decimationTarget, now, outbox, lastCmd,
                   hist, decVars, restVars>>

StoreNext == StorePush \/ StoreTrim

SpecStore == StoreInit /\ [][StoreNext]_vars

---------------------------------------------------------------------------
(* The decimator alone: one call of lttbDownsample on a drawn input *)

\* Inputs in timestamp order: the k-th sample has timestamp k - 1.
SortedData ==
    UNION {{[i \in 1..k |-> MkSample(i - 1, lat[i] /= NoLat, lat[i])] :
              lat \in [1..k -> {NoLat, 0, 3, 5}]} : k \in 0..MaxData}

\* Inputs with repeated and out-of-order timestamps.
MixedData ==
    SeqsUpTo({MkSample(t, l /= NoLat, l) : t \in {0, 1}, l \in {NoLat, 3}}, MaxData)

DecData == SortedData \cup MixedData

DecTargets == 0..(MaxData - 1)

DecInit ==
    /\ buffer = CircularBuffer(MAX_CAP)
    /\ currentRange = DefaultRange
    /\ decimationTarget = DefaultTarget
    /\ now = 0
    /\ outbox = <<>>
    /\ lastCmd = "idle"
    /\ removed = 0 - 1
    /\ StoreIdle
    /\ scn = NoScn
    /\ dData \in DecData
    /\ dTarget \in DecTargets
    /\ dOut = <<>>
    /\ dDone = FALSE
    /\ RestIdle

Decimate ==
    /\ ~dDone
    /\ ~lttbDownsampleThrows(dData, dTarget)
    /\ dOut' = lttbDownsample(dData, dTarget)
    /\ dDone' = TRUE
    /\ UNCHANGED <<engVars, storeVars, scn, dData, dTarget, restVars>>

DecNext == Decimate

SpecDecimate == DecInit /\ [][DecNext]_vars

---------------------------------------------------------------------------
(* Scenario: bulkAdd(A) then bulkAdd(B) on an empty store *)

\* Lists of well-formed samples, as a historical fetch or the persisted
\* snapshot supplies them.
ScnSetup ==
    /\ scn.phase = 0
    /\ SetRange \/ SetDecimation \/ Tick
    /\ UNCHANGED <<storeVars, decVars, scn, restVars>>

SeedBulkA ==
    /\ scn.phase = 0
    /\ \E xs \in BulkLists :
          /\ Process([type |-> "bulkAdd", samples |-> xs])
          /\ scn' = [phase |-> 1, A |-> xs, after |-> toArray(buffer')]
    /\ UNCHANGED <<storeVars, decVars, restVars>>

SeedWait ==
    /\ scn.phase = 1
    /\ Tick
    /\ UNCHANGED <<storeVars, decVars, scn, restVars>>

SeedBulkB ==
    /\ scn.phase = 1
    /\ \E xs \in BulkLists :
          /\ Process([type |-> "bulkAdd", samples |-> xs])
          /\ scn' = [phase |-> 2, A |-> scn.A, after |-> scn.after, B |-> xs]
    /\ UNCHANGED <<storeVars, decVars, restVars>>

SeedNext == ScnSetup \/ SeedBulkA \/ SeedWait \/ SeedBulkB

SpecSeed == Init /\ [][SeedNext]_vars

---------------------------------------------------------------------------
(* Scenario: replaceAll(X), snapshot, replaceAll(X), snapshot *)

\* The store holds something before the first replaceAll.
IdemPrior ==
    /\ scn.phase = 0
    /\ BulkAdd
    /\ UNCHANGED <<storeVars, decVars, scn, restVars>>

IdemReplace1 ==
    /\ scn.phase = 0
    /\ \E xs \in BulkLists :
          /\ Process([type |-> "replaceAll", samples |-> xs])
          /\ scn' = [phase |-> 1, X |-> xs, t1 |-> now]
    /\ UNCHANGED <<storeVars, decVars, restVars>>

IdemSnapshot1 ==
    /\ scn.phase = 1
    /\ Snapshot
    /\ scn' = [phase |-> 2, X |-> scn.X, t1 |-> scn.t1, first |-> outbox']
    /\ UNCHANGED <<storeVars, decVars, restVars>>

IdemReplace2 ==
    /\ scn.phase = 2
    /\ Process([type |-> "replaceAll", samples |-> scn.X])
    /\ scn' = [scn EXCEPT !.phase = 3]
    /\ UNCHANGED <<storeVars, decVars, restVars>>

IdemSnapshot2 ==
    /\ scn.phase = 3
    /\ Snapshot
    /\ scn' = [scn EXCEPT !.phase = 4]
    /\ UNCHANGED <<storeVars, decVars, restVars>>

\* Time may pass anywhere between the first replaceAll and the last snapshot.
\* Tick clears the outbox, so it is not taken once the last snapshot is out.
IdemWait ==
    /\ scn.phase \in {1, 2, 3}
    /\ now < MaxNow
    /\ now' = now + 1
    /\ UNCHANGED <<buffer, currentRange, decimationTarget, outbox, lastCmd,
                   removed, storeVars, decVars, scn, restVars>>

IdemNext ==
    \/ ScnSetup
    \/ IdemPrior
    \/ IdemReplace1
    \/ IdemSnapshot1
    \/ IdemReplace2
    \/ IdemSnapshot2
    \/ IdemWait

SpecIdem == Init /\ [][IdemNext]_vars

---------------------------------------------------------------------------
(* Scenario: live samples, then one replaceAll(X) with X up to one sample *)
(* longer than the capacity                                               *)

\* Samples of a historical fetch, none of them equal to a live sample.
FetchedSamples == {MkSample(t, FALSE, NoLat) : t \in Stamps}

\* The longest list a replaceAll of this scenario carries.
MaxReplace == Capacity + 1

ReplaceLists == SeqsUpTo(FetchedSamples, MaxReplace)

\* Live samples, window changes and the clock before the replaceAll.
ReplacePrior ==
    /\ scn.phase = 0
    /\ \/ \E s \in EngSamples : Process([type |-> "add", sample |-> s])
       \/ SetRange
       \/ Tick
    /\ UNCHANGED <<storeVars, decVars, scn, restVars>>

ReplaceOnce ==
    /\ scn.phase = 0
    /\ \E xs \in ReplaceLists :
          /\ Process([type |-> "replaceAll", samples |-> xs])
          /\ scn' = [phase |-> 1, X |-> xs, prior |-> toArray(buffer)]
    /\ UNCHANGED <<storeVars, decVars, restVars>>

ReplaceNext == ReplacePrior \/ ReplaceOnce

SpecReplace == Init /\ [][ReplaceNext]_vars

---------------------------------------------------------------------------
(* The aggregate alone: one call of computeMetrics on a drawn input *)

MaxAgg == MaxData - 1

\* <<success, latency_ms>> of the samples drawn: successes with three
\* different latencies and with none, failures with and without a latency.
AggShapes ==
    {<<TRUE, 10>>, <<TRUE, 20>>, <<TRUE, 15>>, <<TRUE, NoLat>>,
     <<FALSE, NoLat>>, <<FALSE, 20>>}

\* Timestamps ascending, all equal, or descending along the input.
AggOrders == {"asc", "same", "desc"}

AggStamp(order, i, k) ==
    CASE order = "asc"  -> i - 1
      [] order = "same" -> 0
      [] OTHER          -> k - i

AggData ==
    UNION {{[i \in 1..k |-> MkSample(AggStamp(o, i, k), sh[i][1], sh[i][2])] :
              sh \in [1..k -> AggShapes], o \in AggOrders} : k \in 0..MaxAgg}

AggInit ==
    /\ EngineInit
    /\ now = 0
    /\ StoreIdle
    /\ DecIdle
    /\ scn = NoScn
    /\ CoIdle
    /\ mData \in AggData
    /\ mOut = Absent
    /\ mDone = FALSE

Aggregate ==
    /\ ~mDone
    /\ ~computeMetricsThrows(mData)
    /\ mOut' = computeMetrics(mData)
    /\ mDone' = TRUE
    /\ UNCHANGED <<engVars, storeVars, decVars, scn, mData, coVars>>

AggNext == Aggregate

SpecAgg == AggInit /\ [][AggNext]_vars

---------------------------------------------------------------------------
(* The command channel: the coordinator posts, the worker handles *)

\* Commands posted in one run of the channel.
MaxSent == MaxBulk + 1

\* worker.postMessage calls of the coordinator: app.js:256 (snapshot), 340
\* (add), 368 and 475 (replaceAll), 417 and 554 (bulkAdd), 452 (setRange),
\* 453 and 521 (setDecimation).
QueueCommands ==
    {[type |-> "add", sample |-> MkSample(1, TRUE, 20)],
     [type |-> "add", sample |-> NullSample],
     [type |-> "bulkAdd", samples |-> <<MkSample(0, TRUE, 10)>>],
     [type |-> "replaceAll", samples |-> <<MkSample(1, TRUE, 20)>>],
     [type |-> "setRange", range |-> "all"],
     [type |-> "setDecimation", target |-> 2],
     [type |-> "snapshot"]}

\* The worker's message queue hands self.onmessage the oldest message.
Dequeue(q) == [cmd |-> Head(q), rest |-> Tail(q)]

QueueInit ==
    /\ EngineInit
    /\ StoreIdle
    /\ DecIdle
    /\ AggIdle
    /\ scn = NoScn
    /\ appRange = DefaultRange
    /\ paused = FALSE
    /\ worker = TRUE
    /\ ViewIdle
    /\ sse = 0
    /\ conns = <<>>
    /\ sseReconnectAttempts = 0
    /\ timers = {}
    /\ fetches = {}
    /\ inbox = <<>>
    /\ cnow = 0
    /\ lastWorkerUpdate = 0
    /\ consecutiveFallbacks = 0
    /\ watchdogDue = 0
    /\ glog = [k |-> 1, sent |-> <<>>, procAt |-> <<>>, replies |-> <<>>,
               queued |-> 0]

\* worker.postMessage(cmd): the command joins the worker's queue.
QPost ==
    /\ worker
    /\ Len(glog.sent) < MaxSent
    /\ \E cmd \in QueueCommands :
          /\ inbox' = Append(inbox, cmd)
          /\ glog' = [glog EXCEPT !.sent = Append(@, cmd),
                                  !.queued = IF Len(inbox) + 1 > @
                                             THEN Len(inbox) + 1 ELSE @]
    /\ UNCHANGED <<engVars, storeVars, decVars, scn, aggVars, appRange, worker,
                   viewVars, sseVars, dogVars, fetches>>

\* The message event: handleMessage runs to completion on the oldest command.
QDeliver ==
    /\ inbox /= <<>>
    /\ LET d == Dequeue(inbox)
       IN  /\ Process(d.cmd)
           /\ inbox' = d.rest
           /\ glog' = [glog EXCEPT
                 !.procAt = Append(@, now),
                 !.replies = @ \o [j \in 1..Len(outbox') |->
                                     [idx     |-> Len(glog.procAt) + 1,
                                      type    |-> outbox'[j].type,
                                      payload |-> outbox'[j].payload]]]
    /\ UNCHANGED <<storeVars, decVars, scn, aggVars, appRange, worker, sseVars,
                   dogVars, viewVars, fetches>>

QTick ==
    /\ Tick
    /\ UNCHANGED <<storeVars, decVars, scn, restVars>>

QueueNext == QPost \/ QDeliver \/ QTick

SpecQueue == QueueInit /\ [][QueueNext]_vars

---------------------------------------------------------------------------
(* The coordinator's live transport, app.js:330-371, 312-328 and 485-495 *)

\* EventSource objects constructed in one run of the transport.
MaxConns == 3

\* Consecutive transport errors in one run of the backoff scenario.
MaxStreak == 8

\* Live messages received in one run.
MaxLive == 2

\* Range buttons clicked in one run.
MaxClicks == 1

MAX_SSE_RETRY_DELAY == 15000

\* ev.data of a live message: text JSON.parse accepts, with the value it
\* yields (a sample or null), or text it rejects.
LiveData == {[parses |-> TRUE, value |-> e] : e \in LiveSamples} \cup {[parses |-> FALSE]}

\* How a historical fetch ends: fetch or r.json() rejects, or m.samples is
\* an empty or a non-empty list.
FetchOutcomes ==
    {[ok |-> FALSE],
     [ok |-> TRUE, samples |-> <<>>],
     [ok |-> TRUE, samples |-> <<MkSample(1, TRUE, 20)>>]}

\* The data-range values of the range buttons.
RangeButtons == {"5m", "1h", "24h", "all"}

\* mutant: the paused test of line 335 is missing
onmessageWhilePaused(isPaused, data, hasWorker) ==
    IF ~data.parses THEN <<>>
    ELSE IF hasWorker THEN <<[type |-> "add", sample |-> data.value]>>
    ELSE <<>>

\* sse.onmessage, lines 334-342: the commands it posts to the worker.
onmessage(isPaused, data, hasWorker) ==
    IF isPaused THEN <<>>
    ELSE IF ~data.parses THEN <<>>
    ELSE IF hasWorker THEN <<[type |-> "add", sample |-> data.value]>>
    ELSE <<>>

\* Line 353: Math.min(1000 * Math.pow(1.5, attempts), MAX_SSE_RETRY_DELAY) as
\* an exact fraction of a millisecond count.
ReconnectDelay(attempts) ==
    IF 1000 * (3 ^ attempts) < MAX_SSE_RETRY_DELAY * (2 ^ attempts)
    THEN Frac(1000 * (3 ^ attempts), 2 ^ attempts)
    ELSE Frac(MAX_SSE_RETRY_DELAY, 1)

\* Lines 352-355: the counter after the call and the timer it sets.
scheduleSSEReconnect(attempts) ==
    [attempts |-> attempts + 1,
     timer    |-> [kind |-> "reconnect", delay |-> ReconnectDelay(attempts + 1)]]

NewId(cs) == CHOOSE i \in 1..(Cardinality(DOMAIN cs) + 1) : i \notin DOMAIN cs

\* sse.close()
Close(cs, id) == [i \in (DOMAIN cs) \ {id} |-> cs[i]]

\* startSSE, lines 330-349: ok tells whether the EventSource constructor
\* returned; when it throws, the catch of line 348 leaves sse null.
startSSE(cs, ok) ==
    IF ok
    THEN LET id == NewId(cs)
         IN  [sse |-> id, conns |-> cs @@ (id :> "connecting")]
    ELSE [sse |-> 0, conns |-> cs]

\* mutant: the reseed posts a bulkAdd
fetchAndReseedAsBulkAdd(res) ==
    IF res.ok /\ Len(res.samples) > 0
    THEN <<[type |-> "bulkAdd", samples |-> res.samples]>>
    ELSE <<>>

\* fetchAndReseedIfNeeded after its await, lines 366-370: the commands posted.
fetchAndReseedIfNeeded(res) ==
    IF res.ok /\ Len(res.samples) > 0
    THEN <<[type |-> "replaceAll", samples |-> res.samples]>>
    ELSE <<>>

\* What the live-transport actions never touch.
liveFrame == <<engVars, storeVars, decVars, scn, aggVars, worker, dogVars,
               viewVars>>

NoEntry == [none |-> TRUE]

\* The coordinator once init() has returned (lines 288-310) with nothing
\* persisted: initWorker has posted setRange and setDecimation, fetchMetrics a
\* snapshot, and startSSE has run.  lim holds the run's limits on
\* EventSource objects, live messages and clicks.
CoStarted(lim) ==
    /\ EngineInit
    /\ now = 0
    /\ StoreIdle
    /\ DecIdle
    /\ AggIdle
    /\ scn = NoScn
    /\ appRange = DefaultRange
    /\ paused = FALSE
    /\ worker = TRUE
    /\ ViewIdle
    /\ \E ok \in BOOLEAN :
          /\ sse = startSSE(<<>>, ok).sse
          /\ conns = startSSE(<<>>, ok).conns
    /\ sseReconnectAttempts = 0
    /\ timers = {}
    /\ fetches = {}
    /\ inbox = <<[type |-> "setRange", range |-> appRange],
                 [type |-> "setDecimation", target |-> DefaultTarget],
                 [type |-> "snapshot"]>>
    /\ cnow = 0
    /\ lastWorkerUpdate = 0
    /\ consecutiveFallbacks = 0
    /\ watchdogDue = 0
    /\ glog = [k |-> 2, lim |-> lim, made |-> 1, recv |-> <<>>, streak |-> 0,
               delays |-> <<>>, recon |-> 0, bfFired |-> 0,
               last |-> NoEntry, clicks |-> 0]

\* The live transport with its messages, errors, reconnections and the pause
\* button; the range buttons are left alone.
LiveInit == CoStarted([conns |-> MaxConns, live |-> MaxLive, clicks |-> 0])

\* mutant: onopen leaves the attempt counter alone
sseOnOpenNoReset ==
    /\ \E id \in DOMAIN conns :
          /\ conns[id] = "connecting"
          /\ conns' = [conns EXCEPT ![id] = "open"]
    /\ glog' = [glog EXCEPT !.streak = 0, !.delays = <<>>]
    /\ UNCHANGED <<liveFrame, appRange, paused, sse, timers, fetches, inbox,
                   sseReconnectAttempts>>

\* sse.onopen, line 333
sseOnOpen ==
    /\ \E id \in DOMAIN conns :
          /\ conns[id] = "connecting"
          /\ conns' = [conns EXCEPT ![id] = "open"]
    /\ sseReconnectAttempts' = 0
    /\ glog' = [glog EXCEPT !.streak = 0, !.delays = <<>>]
    /\ UNCHANGED <<liveFrame, appRange, paused, sse, timers, fetches, inbox>>

\* sse.onmessage, lines 334-342
sseOnMessage ==
    /\ Len(glog.recv) < glog.lim.live
    /\ \E id \in DOMAIN conns : conns[id] = "open"
    /\ \E data \in LiveData :
          /\ inbox' = inbox \o onmessage(paused, data, worker)
          /\ glog' = [glog EXCEPT
                         !.recv = Append(@, [data |-> data, paused |-> paused])]
    /\ UNCHANGED <<liveFrame, appRange, paused, sse, conns,
                   sseReconnectAttempts, timers, fetches>>

\* mutant: onerror drops the reference without closing the EventSource
sseOnErrorNoClose ==
    /\ DOMAIN conns /= {}
    /\ sse' = 0
    /\ LET r == scheduleSSEReconnect(sseReconnectAttempts)
       IN  /\ sseReconnectAttempts' = r.attempts
           /\ timers' = timers \cup {r.timer}
           /\ glog' = [glog EXCEPT !.streak = @ + 1,
                                   !.delays = Append(@, r.timer.delay)]
    /\ UNCHANGED <<liveFrame, appRange, paused, fetches, inbox, conns>>

\* sse.onerror, lines 343-347: an error event on an EventSource that is not
\* closed; the handler closes the one the coordinator holds.
sseOnError ==
    /\ DOMAIN conns /= {}
    /\ conns' = IF sse /= 0 THEN Close(conns, sse) ELSE conns
    /\ sse' = 0
    /\ LET r == scheduleSSEReconnect(sseReconnectAttempts)
       IN  /\ sseReconnectAttempts' = r.attempts
           /\ timers' = timers \cup {r.timer}
           /\ glog' = [glog EXCEPT !.streak = @ + 1,
                                   !.delays = Append(@, r.timer.delay)]
    /\ UNCHANGED <<liveFrame, appRange, paused, fetches, inbox>>

\* The timer callback of lines 355-360.  Its delay is at least 1500 ms and
\* the backfill timer it sets runs after 1200 ms, so the backfill timer of
\* one reconnect has run before the next reconnect timer does.
ReconnectFire ==
    \E t \in timers :
        /\ t.kind = "reconnect"
        /\ ~ \E b \in timers : b.kind = "backfill"
        /\ IF sse /= 0
           THEN /\ timers' = timers \ {t}
                /\ UNCHANGED <<sse, conns, glog>>
           ELSE /\ glog.made < glog.lim.conns
                /\ \E ok \in BOOLEAN :
                      /\ sse' = startSSE(conns, ok).sse
                      /\ conns' = startSSE(conns, ok).conns
                /\ timers' = (timers \ {t})
                                \cup {[kind |-> "backfill"]}
                /\ glog' = [glog EXCEPT !.made = @ + 1, !.recon = @ + 1,
                                        !.last = [ev |-> "reconnect"]]
        /\ UNCHANGED <<liveFrame, appRange, paused, sseReconnectAttempts,
                       fetches, inbox>>

\* The timer callback of line 359 and fetchAndReseedIfNeeded up to its await.
BackfillFire ==
    \E t \in timers :
        /\ t.kind = "backfill"
        /\ timers' = timers \ {t}
        /\ fetches' = IF worker
                      THEN fetches \cup {[kind |-> "backfill", range |-> appRange]}
                      ELSE fetches
        /\ glog' = [glog EXCEPT !.bfFired = @ + 1,
                                !.last = [ev |-> "issue", window |-> appRange,
                                          inflight |-> fetches']]
        /\ UNCHANGED <<liveFrame, appRange, paused, sse, conns,
                       sseReconnectAttempts, inbox>>

\* fetchAndReseedIfNeeded from its await on.
BackfillDone ==
    \E f \in fetches :
        /\ f.kind = "backfill"
        /\ fetches' = fetches \ {f}
        /\ \E res \in FetchOutcomes :
              /\ inbox' = inbox \o fetchAndReseedIfNeeded(res)
              /\ glog' = [glog EXCEPT !.last =
                             [ev |-> "backfill", res |-> res,
                              posted |-> SubSeq(inbox', Len(inbox) + 1, Len(inbox'))]]
        /\ UNCHANGED <<liveFrame, appRange, paused, sse, conns,
                       sseReconnectAttempts, timers>>

\* The click handler of the pause button, line 493.
TogglePause ==
    /\ paused' = ~paused
    /\ UNCHANGED <<liveFrame, appRange, sse, conns, sseReconnectAttempts,
                   timers, fetches, inbox, glog>>

\* The click handler of a range button, lines 320-325, with the snapshot
\* request fetchMetrics posts (line 256); what fetchMetrics fetches is unused.
SelectRange ==
    /\ glog.clicks < glog.lim.clicks
    /\ \E r \in RangeButtons : appRange' = r
    /\ inbox' = IF worker THEN Append(inbox, [type |-> "snapshot"]) ELSE inbox
    /\ glog' = [glog EXCEPT !.clicks = @ + 1]
    /\ UNCHANGED <<liveFrame, paused, sse, conns, sseReconnectAttempts,
                   timers, fetches>>

LiveNext ==
    \/ sseOnOpen
    \/ sseOnMessage
    \/ sseOnError
    \/ ReconnectFire
    \/ BackfillFire
    \/ BackfillDone
    \/ TogglePause

SpecLive == LiveInit /\ [][LiveNext]_vars

\* Errors, reconnections and backfills while the user changes the window
\* and pauses; no live message arrives.
WindowInit == CoStarted([conns |-> MaxConns, live |-> 0, clicks |-> MaxClicks])

WindowNext ==
    \/ sseOnOpen
    \/ sseOnError
    \/ ReconnectFire
    \/ BackfillFire
    \/ BackfillDone
    \/ TogglePause
    \/ SelectRange

SpecWindow == WindowInit /\ [][WindowNext]_vars

\* The transport failing again and again with no live message in between.
BackoffInit == CoStarted([conns |-> MaxStreak + 1, live |-> 0, clicks |-> 0])

BackoffNext ==
    \/ sseOnOpen
    \/ sseOnError
    \/ ReconnectFire
    \/ BackfillFire
    \/ BackfillDone

SpecBackoff == BackoffInit /\ [][BackoffNext]_vars

---------------------------------------------------------------------------
(* The staleness watchdog, app.js:458-483, and worker.onmessage, 433-450:  *)
(* the staleness clock and the fallback counter over many ticks.  What a   *)
(* reply or a fallback draws and persists is followed in the scenarios of  *)
(* the page further down.                                                  *)

\* The coordinator's clock runs over 1..MaxClock, in units of 1000 ms.
MaxClock == 25

\* The setInterval period of line 482, 4000 ms.
WatchdogInterval == 4

\* The threshold of line 463, 5000 ms.
StaleAfter == 5

\* Every how many counted fallbacks the replaceAll is posted, line 473.
ResyncEvery == 3

\* mutant: stale from the threshold on (>= instead of >)
IsStaleAtThreshold(lwu, t) == lwu = 0 \/ t - lwu >= StaleAfter

\* Lines 462-463: lastWorkerUpdate===0 || since > 5000
IsStale(lwu, t) == lwu = 0 \/ t - lwu > StaleAfter

\* mutant: the counter is tested before it is incremented
fallbackPostsBeforeCount(count, res, hasWorker) ==
    IF (count - 1) % ResyncEvery = 0 /\ hasWorker /\ Len(res.samples) > 0
    THEN <<[type |-> "replaceAll", samples |-> res.samples]>>
    ELSE <<>>

\* mutant: the resync is posted as a bulkAdd
fallbackPostsAsBulkAdd(count, res, hasWorker) ==
    IF count % ResyncEvery = 0 /\ hasWorker /\ Len(res.samples) > 0
    THEN <<[type |-> "bulkAdd", samples |-> res.samples]>>
    ELSE <<>>

\* Lines 473-477, count being consecutiveFallbacks after its increment: the
\* commands posted.
fallbackPosts(count, res, hasWorker) ==
    IF count % ResyncEvery = 0 /\ hasWorker /\ Len(res.samples) > 0
    THEN <<[type |-> "replaceAll", samples |-> res.samples]>>
    ELSE <<>>

\* What the watchdog actions never touch.
watchFrame == <<engVars, storeVars, decVars, scn, aggVars, appRange, worker,
                sseVars, viewVars>>

\* The coordinator once init() has returned, at clock 1: armFallback has set
\* the interval timer; no reply has been accepted.
WatchInit ==
    /\ EngineInit
    /\ now = 0
    /\ StoreIdle
    /\ DecIdle
    /\ AggIdle
    /\ scn = NoScn
    /\ appRange = DefaultRange
    /\ paused = FALSE
    /\ worker = TRUE
    /\ ViewIdle
    /\ sse = 0
    /\ conns = <<>>
    /\ sseReconnectAttempts = 0
    /\ timers = {}
    /\ fetches = {}
    /\ inbox = <<[type |-> "setRange", range |-> appRange],
                 [type |-> "setDecimation", target |-> DefaultTarget],
                 [type |-> "snapshot"]>>
    /\ cnow = 1
    /\ lastWorkerUpdate = 0
    /\ consecutiveFallbacks = 0
    /\ watchdogDue = 1 + WatchdogInterval
    /\ glog = [k |-> 3, ticks |-> 0, accepted |-> 0, acceptAt |-> 0,
               staleRun |-> 0, okRun |-> 0, last |-> NoEntry]

\* Time passes; a due interval callback runs before the clock moves on.
WatchAdvance ==
    /\ cnow < MaxClock
    /\ cnow < watchdogDue
    /\ cnow' = cnow + 1
    /\ UNCHANGED <<watchFrame, lastWorkerUpdate, consecutiveFallbacks,
                   watchdogDue, fetches, inbox, glog>>

\* worker.onmessage, lines 433-450, for an update or snapshot reply: one
\* whose payload has metrics is accepted and stamps lastWorkerUpdate, one
\* without is ignored.
WorkerReply ==
    /\ worker
    /\ \E hasMetrics \in BOOLEAN :
          IF hasMetrics
          THEN /\ lastWorkerUpdate' = cnow
               /\ glog' = [glog EXCEPT !.accepted = 1, !.acceptAt = cnow,
                                       !.last = [ev |-> "reply"]]
          ELSE /\ UNCHANGED lastWorkerUpdate
               /\ glog' = [glog EXCEPT !.last = [ev |-> "ignored"]]
    /\ UNCHANGED <<watchFrame, cnow, consecutiveFallbacks, watchdogDue,
                   fetches, inbox>>

\* The interval callback of lines 461-482 up to its await.
WatchdogTick ==
    /\ cnow = watchdogDue
    /\ watchdogDue' = watchdogDue + WatchdogInterval
    /\ IF IsStale(lastWorkerUpdate, cnow)
       THEN /\ fetches' = fetches \cup {[kind |-> "fallback", range |-> appRange,
                                         n |-> glog.ticks + 1,
                                         run |-> glog.staleRun + 1]}
            /\ UNCHANGED consecutiveFallbacks
            /\ glog' = [glog EXCEPT
                  !.ticks = @ + 1,
                  !.staleRun = @ + 1,
                  !.last = [ev |-> "tick", at |-> cnow, fetched |-> TRUE]]
       ELSE /\ consecutiveFallbacks' = 0
            /\ UNCHANGED fetches
            /\ glog' = [glog EXCEPT
                  !.ticks = @ + 1,
                  !.staleRun = 0,
                  !.okRun = 0,
                  !.last = [ev |-> "tick", at |-> cnow, fetched |-> FALSE]]
    /\ UNCHANGED <<watchFrame, cnow, lastWorkerUpdate, inbox>>

\* The interval callback from its await on, lines 468-478: a rejected
\* request ends in the catch; otherwise the result is rendered, the counter
\* incremented and, every third count, the replaceAll posted.
FallbackDone ==
    \E f \in fetches :
        /\ f.kind = "fallback"
        /\ fetches' = fetches \ {f}
        /\ \E res \in FetchOutcomes :
              IF res.ok
              THEN /\ consecutiveFallbacks' = consecutiveFallbacks + 1
                   /\ inbox' = inbox \o fallbackPosts(consecutiveFallbacks + 1,
                                                      res, worker)
                   /\ glog' = [glog EXCEPT
                         !.okRun = @ + 1,
                         !.last = [ev |-> "fallback", res |-> res, run |-> f.run,
                                   posted |-> SubSeq(inbox', Len(inbox) + 1,
                                                     Len(inbox'))]]
              ELSE /\ UNCHANGED <<consecutiveFallbacks, inbox>>
                   /\ glog' = [glog EXCEPT
                         !.last = [ev |-> "fallback", res |-> res, run |-> f.run,
                                   posted |-> <<>>]]
        /\ UNCHANGED <<watchFrame, cnow, lastWorkerUpdate, watchdogDue>>

WatchNext == WatchAdvance \/ WorkerReply \/ WatchdogTick \/ FallbackDone

SpecWatch == WatchInit /\ [][WatchNext]_vars

---------------------------------------------------------------------------
(* The page: worker.onmessage with its render and persistence, the seed,   *)
(* the watchdog's fallback render and the restore at startup,              *)
(* app.js:373-456, 458-483 and 532-562.  The clock of these scenarios      *)
(* counts units of 250 ms.                                                 *)

\* Clock units in 1000 ms.
TicksPerSecond == 4

\* The 750 ms of line 375 in clock units.
ThrottleGap == 3

\* A sample as the server and the worker hand it over: the three fields the
\* page reads and one it does not.
WireSample(t, ok, lat) ==
    [ts |-> t, success |-> ok, latency_ms |-> lat, detail |-> "icmp"]

\* The object literal of line 539.
Project(s) == [ts |-> s.ts, success |-> s.success, latency_ms |-> s.latency_ms]

\* mutant: the samples are stored as they came
persistSnapshotUnprojected(slot, samples, range, target, t) ==
    IF samples = <<>> THEN slot
    ELSE [range |-> range, decimationTarget |-> target, samples |-> samples,
          savedAt |-> t]

\* persistSnapshot, lines 532-544: the content of the slot afterwards.
persistSnapshot(slot, samples, range, target, t) ==
    IF samples = <<>> THEN slot
    ELSE [range |-> range, decimationTarget |-> target,
          samples |-> [i \in 1..Len(samples) |-> Project(samples[i])],
          savedAt |-> t]

\* The part of the coordinator's state a render can change.
PageState ==
    [lastWorkerUpdate |-> lastWorkerUpdate, lastChartRender |-> lastChartRender,
     view |-> view, slot |-> snapshotSlot]

\* mutant: a snapshot that comes too early is drawn all the same
updateChartsUnthrottled(st, samples, range, target, t) ==
    IF samples = <<>>
    THEN [st EXCEPT !.lastChartRender = t]
    ELSE [st EXCEPT !.lastChartRender = t,
                    !.view.series = samples,
                    !.slot = persistSnapshot(st.slot, samples, range, target, t)]

\* updateChartsFromWorker, lines 373-405.
updateChartsFromWorker(st, samples, range, target, t) ==
    IF t - st.lastChartRender < ThrottleGap
    THEN st
    ELSE IF samples = <<>>
    THEN [st EXCEPT !.lastChartRender = t]
    ELSE [st EXCEPT !.lastChartRender = t,
                    !.view.series = samples,
                    !.slot = persistSnapshot(st.slot, samples, range, target, t)]

\* seedWorkerIfEmpty up to its await, lines 409-413: the fetches it issues.
seedWorkerIfEmpty(lwu, range) ==
    IF lwu /= 0 THEN {} ELSE {[kind |-> "seed", range |-> range]}

\* seedWorkerIfEmpty after its await, lines 414-421: the commands posted.
seedPosts(res, hasWorker) ==
    IF res.ok /\ Len(res.samples) > 0 /\ hasWorker
    THEN <<[type |-> "bulkAdd", samples |-> res.samples]>>
    ELSE <<>>

\* The payload of a message is missing, or has no metrics (line 436).
Rejected(msg) == msg.payload = NoEntry \/ msg.payload.metrics = Absent

\* mutant: the payload is taken as it comes
workerOnMessageUnchecked(st, msg, range, target, t) ==
    IF msg.type \notin {"update", "snapshot"} \/ msg.payload = NoEntry
    THEN [st |-> st, fetches |-> {}]
    ELSE LET s1 == [st EXCEPT !.lastWorkerUpdate = t,
                              !.view.metrics = msg.payload.metrics]
             s2 == updateChartsFromWorker(s1, msg.payload.samples, range,
                                          target, t)
         IN  [st |-> s2, fetches |-> {}]

\* worker.onmessage, lines 433-450: the page state afterwards and the
\* fetches issued.  The seed call of line 446 is made after line 438 has
\* stamped lastWorkerUpdate.
workerOnMessage(st, msg, range, target, t) ==
    IF msg.type \notin {"update", "snapshot"} \/ Rejected(msg)
    THEN [st |-> st, fetches |-> {}]
    ELSE LET firstUpdate == st.lastWorkerUpdate = 0
             s1 == [st EXCEPT !.lastWorkerUpdate = t,
                              !.view.metrics = msg.payload.metrics]
             s2 == updateChartsFromWorker(s1, msg.payload.samples, range,
                                          target, t)
         IN  [st |-> s2,
              fetches |-> IF firstUpdate /\ msg.payload.samples = <<>>
                          THEN seedWorkerIfEmpty(s2.lastWorkerUpdate, range)
                          ELSE {}]

\* The interval callback of armFallback after its await, lines 468-478, for
\* a fetch that succeeded: the page state afterwards.
fallbackRender(st, res, range, target, t) ==
    updateChartsFromWorker([st EXCEPT !.view.metrics = [fetched |-> TRUE]],
                           res.samples, range, target, t)

\* The test of line 463 on the clock of these scenarios.
IsStalePage(lwu, t) == lwu = 0 \/ t - lwu > StaleAfter * TicksPerSecond

\* A slot that holds no snapshot: text JSON.parse rejects, or a parsed value
\* that is null or has no samples array.
CorruptSlots == {[corrupt |-> "text"], [corrupt |-> "shape"]}

\* What localStorage can hold under PERSIST_KEY_SNAPSHOT when the page
\* loads: nothing, something else, or what persistSnapshot wrote in an
\* earlier session (at time 0) under either window.
StartSlots ==
    {Absent} \cup CorruptSlots
    \cup {persistSnapshot(Absent, <<WireSample(0, TRUE, 10)>>, r, DefaultTarget, 0) :
             r \in {DefaultRange, "1h"}}

\* mutant: a slot of another window is replayed too
restoreFromCacheAnyRange(slot, range, hasWorker) ==
    IF slot = Absent \/ slot \in CorruptSlots THEN <<>>
    ELSE IF ~hasWorker THEN <<>>
    ELSE <<[type |-> "bulkAdd", samples |-> slot.samples]>>

\* restoreFromCache, lines 546-562: the commands posted.
restoreFromCache(slot, range, hasWorker) ==
    IF slot = Absent \/ slot \in CorruptSlots THEN <<>>
    ELSE IF ~hasWorker THEN <<>>
    ELSE IF slot.range /= range THEN <<>>
    ELSE <<[type |-> "bulkAdd", samples |-> slot.samples]>>

\* mutant: the counter is incremented before the request is made, so a
\* failed fetch counts
fallbackCompletedCountsFailure(st, count, res, range, target, hasWorker, t) ==
    IF ~res.ok
    THEN [st |-> st, count |-> count + 1, posts |-> <<>>]
    ELSE [st    |-> fallbackRender(st, res, range, target, t),
          count |-> count + 1,
          posts |-> fallbackPosts(count + 1, res, hasWorker)]

\* The interval callback of armFallback after its await, lines 468-478.
fallbackCompleted(st, count, res, range, target, hasWorker, t) ==
    IF ~res.ok
    THEN [st |-> st, count |-> count, posts |-> <<>>]
    ELSE [st    |-> fallbackRender(st, res, range, target, t),
          count |-> count + 1,
          posts |-> fallbackPosts(count + 1, res, hasWorker)]

\* The clock when init() runs: Date.now() is far above the 750 ms of the
\* throttle, so the first render is never throttled.
PageStart == ThrottleGap

\* setTimeout(seedWorkerIfEmpty, 300) of line 455: 300 ms lie in the second
\* clock unit after init().
SeedDue == PageStart + 1

\* Bounds of the render scenario: replies delivered, and how far the clock
\* runs.
MaxReplies == 2

MaxRenderClock == 6

\* The series a reply carries: empty, or two samples.
PageSeries ==
    {<<>>, <<WireSample(0, TRUE, 10), WireSample(1, FALSE, NoLat)>>}

\* Messages of the worker: replies with metrics, a reply without metrics,
\* one without payload, and a message of another type.
ReplyMessages ==
    {[type |-> "update", payload |-> [metrics |-> [count |-> Len(ser)],
                                      samples |-> ser]] : ser \in PageSeries}
    \cup {[type |-> "snapshot",
           payload |-> [metrics |-> [count |-> 1],
                        samples |-> <<WireSample(1, TRUE, 20)>>]],
          [type |-> "update",
           payload |-> [metrics |-> Absent,
                        samples |-> <<WireSample(1, TRUE, 20)>>]],
          [type |-> "update", payload |-> NoEntry],
          [type |-> "ready",
           payload |-> [metrics |-> [count |-> 1],
                        samples |-> <<WireSample(1, TRUE, 20)>>]]}

\* Values of the decimation slider (min 100, step 50).
SliderValues == {100, 150}

\* What the page actions never touch.
pageFrame == <<engVars, storeVars, decVars, scn, aggVars, worker>>

\* The coordinator when init() has returned, lines 288-310: initWorker has
\* posted setRange and setDecimation and set the seed timer,
\* restoreFromCache has replayed the slot, fetchMetrics has posted a
\* snapshot request, armFallback has set the interval and startSSE has
\* made its attempt.
PageInit(lim, slots) ==
    /\ EngineInit
    /\ now = 0
    /\ StoreIdle
    /\ DecIdle
    /\ AggIdle
    /\ scn = NoScn
    /\ appRange = DefaultRange
    /\ appTarget = DefaultTarget
    /\ paused = FALSE
    /\ worker = TRUE
    /\ snapshotSlot \in slots
    /\ lastChartRender = 0
    /\ view = NoView
    /\ \E ok \in BOOLEAN :
          /\ sse = startSSE(<<>>, ok).sse
          /\ conns = startSSE(<<>>, ok).conns
    /\ sseReconnectAttempts = 0
    /\ timers = {[kind |-> "seed", due |-> SeedDue]}
    /\ fetches = {}
    /\ inbox = <<[type |-> "setRange", range |-> appRange],
                 [type |-> "setDecimation", target |-> appTarget]>>
               \o restoreFromCache(snapshotSlot, appRange, worker)
               \o <<[type |-> "snapshot"]>>
    /\ cnow = PageStart
    /\ lastWorkerUpdate = 0
    /\ consecutiveFallbacks = 0
    /\ watchdogDue = PageStart + WatchdogInterval * TicksPerSecond
    /\ glog = [k |-> 4, lim |-> lim, made |-> 1, recv |-> <<>>, streak |-> 0,
               delays |-> <<>>, recon |-> 0, bfFired |-> 0, last |-> NoEntry,
               clicks |-> 0, slides |-> 0, replies |-> 0, ignored |-> FALSE,
               gotSeries |-> FALSE, seedFired |-> FALSE, seedFetches |-> 0,
               seedPosts |-> 0, slot0 |-> snapshotSlot]

\* Time passes; a due timer runs before the clock moves on.
PageAdvance ==
    /\ cnow < glog.lim.clock
    /\ cnow < watchdogDue
    /\ \A t \in timers : t.kind = "seed" => cnow < t.due
    /\ cnow' = cnow + 1
    /\ UNCHANGED <<pageFrame, appRange, sseVars, viewVars, lastWorkerUpdate,
                   consecutiveFallbacks, watchdogDue, fetches, inbox, glog>>

\* worker.onmessage, lines 433-450, on one message of the worker.
WorkerMessage ==
    /\ worker
    /\ glog.replies < glog.lim.replies
    /\ \E msg \in ReplyMessages :
          LET r == workerOnMessage(PageState, msg, appRange, appTarget, cnow)
          IN  /\ lastWorkerUpdate' = r.st.lastWorkerUpdate
              /\ lastChartRender' = r.st.lastChartRender
              /\ view' = r.st.view
              /\ snapshotSlot' = r.st.slot
              /\ fetches' = fetches \cup r.fetches
              /\ glog' = [glog EXCEPT
                    !.replies = @ + 1,
                    !.ignored = @ \/ (/\ msg.type \in {"update", "snapshot"}
                                      /\ Rejected(msg)),
                    !.gotSeries = @ \/ (/\ ~glog.seedFired
                                        /\ msg.type \in {"update", "snapshot"}
                                        /\ msg.payload /= NoEntry
                                        /\ msg.payload.samples /= <<>>),
                    !.last = [ev |-> "reply", msg |-> msg]]
    /\ UNCHANGED <<pageFrame, appRange, appTarget, sseVars, cnow,
                   consecutiveFallbacks, watchdogDue, inbox>>

\* The timer of line 455 runs seedWorkerIfEmpty up to its await.
SeedTimer ==
    \E t \in timers :
        /\ t.kind = "seed"
        /\ cnow = t.due
        /\ timers' = timers \ {t}
        /\ fetches' = fetches \cup seedWorkerIfEmpty(lastWorkerUpdate, appRange)
        /\ glog' = [glog EXCEPT
              !.seedFired = TRUE,
              !.seedFetches = @ + Cardinality(fetches' \ fetches),
              !.last = [ev |-> "seedTimer"]]
        /\ UNCHANGED <<pageFrame, appRange, paused, sse, conns,
                       sseReconnectAttempts, viewVars, dogVars, inbox>>

\* seedWorkerIfEmpty from its await on, the fetch ending in one of outcomes.
SeedDoneWith(outcomes) ==
    \E f \in fetches :
        /\ f.kind = "seed"
        /\ fetches' = fetches \ {f}
        /\ \E res \in outcomes :
              /\ inbox' = inbox \o seedPosts(res, worker)
              /\ glog' = [glog EXCEPT
                    !.seedPosts = @ + Len(seedPosts(res, worker)),
                    !.last = [ev |-> "seed", res |-> res]]
        /\ UNCHANGED <<pageFrame, appRange, sseVars, viewVars, dogVars>>

SeedDone == SeedDoneWith(FetchOutcomes)

\* The interval callback of armFallback up to its await, lines 461-467 and
\* 479-481.
FallbackTick ==
    /\ cnow = watchdogDue
    /\ watchdogDue' = watchdogDue + WatchdogInterval * TicksPerSecond
    /\ IF IsStalePage(lastWorkerUpdate, cnow)
       THEN /\ fetches' = fetches \cup {[kind |-> "fallback", range |-> appRange]}
            /\ UNCHANGED consecutiveFallbacks
       ELSE /\ consecutiveFallbacks' = 0
            /\ UNCHANGED fetches
    /\ glog' = [glog EXCEPT !.last = [ev |-> "tick",
                                      fetched |-> fetches' /= fetches]]
    /\ UNCHANGED <<pageFrame, appRange, sseVars, viewVars, cnow,
                   lastWorkerUpdate, inbox>>

\* The interval callback of armFallback from its await on, the fetch ending
\* in one of outcomes.
FallbackFetchedWith(outcomes) ==
    \E f \in fetches :
        /\ f.kind = "fallback"
        /\ fetches' = fetches \ {f}
        /\ \E res \in outcomes :
              LET r == fallbackCompleted(PageState, consecutiveFallbacks, res,
                                         appRange, appTarget, worker, cnow)
              IN  /\ lastChartRender' = r.st.lastChartRender
                  /\ view' = r.st.view
                  /\ snapshotSlot' = r.st.slot
                  /\ consecutiveFallbacks' = r.count
                  /\ inbox' = inbox \o r.posts
                  /\ glog' = [glog EXCEPT
                        !.last = [ev |-> "fallback", res |-> res]]
        /\ UNCHANGED <<pageFrame, appRange, appTarget, sseVars, cnow,
                       lastWorkerUpdate, watchdogDue>>

FallbackFetched == FallbackFetchedWith(FetchOutcomes)

\* The input handler of the decimation slider, lines 517-522.
SliderInput ==
    /\ glog.slides < glog.lim.slides
    /\ \E v \in SliderValues :
          /\ appTarget' = v
          /\ inbox' = IF worker
                      THEN Append(inbox, [type |-> "setDecimation", target |-> v])
                      ELSE inbox
    /\ glog' = [glog EXCEPT !.slides = @ + 1, !.last = [ev |-> "slide"]]
    /\ UNCHANGED <<pageFrame, appRange, sseVars, dogVars, lastChartRender,
                   view, snapshotSlot, fetches>>

\* Replies, renders, the range buttons and the slider during the first
\* seconds of the page.
RenderInit ==
    PageInit([conns |-> 1, live |-> 0, clicks |-> 1, slides |-> 1,
              replies |-> MaxReplies, clock |-> MaxRenderClock], {Absent})

RenderNext ==
    \/ PageAdvance
    \/ WorkerMessage
    \/ SeedTimer
    \/ SeedDone
    \/ SelectRange
    \/ SliderInput

SpecRender == RenderInit /\ [][RenderNext]_vars

\* The page loads with whatever the slot holds, and the live transport and
\* the seed run up to just after the grace period: every command derived
\* from network activity.
BootClock == SeedDue + 1

BootInit ==
    PageInit([conns |-> 2, live |-> MaxLive, clicks |-> 0, slides |-> 0,
              replies |-> 0, clock |-> BootClock], StartSlots)

BootNext ==
    \/ PageAdvance
    \/ SeedTimer
    \/ SeedDone
    \/ sseOnOpen
    \/ sseOnMessage
    \/ sseOnError
    \/ ReconnectFire
    \/ BackfillFire
    \/ BackfillDone

SpecBoot == BootInit /\ [][BootNext]_vars

\* The historical fetches with each of their outcomes: the seed, the
\* backfill after a reconnect and the fallback of the watchdog, up to just
\* after the first tick of the watchdog.
FetchClock == PageStart + WatchdogInterval * TicksPerSecond + 1

FetchInit ==
    PageInit([conns |-> 2, live |-> 0, clicks |-> 0, slides |-> 0,
              replies |-> 1, clock |-> FetchClock], {Absent})

FetchNext ==
    \/ PageAdvance
    \/ WorkerMessage
    \/ SeedTimer
    \/ SeedDone
    \/ FallbackTick
    \/ FallbackFetched
    \/ sseOnOpen
    \/ sseOnError
    \/ ReconnectFire
    \/ BackfillFire
    \/ BackfillDone

SpecFetch == FetchInit /\ [][FetchNext]_vars


---------------------------------------------------------------------------
(* The page and the engine together: the commands the coordinator posts   *)
(* are handled by handleMessage, and what it posts back is delivered to   *)
(* worker.onmessage.  A run of these scenarios lasts seconds, far less    *)
(* than the shortest window, so the engine's clock stays where it is.     *)

\* What the engine's handler never touches of the page.
engineFrame == <<storeVars, decVars, scn, aggVars, appRange, worker, sseVars,
                 dogVars, viewVars, fetches, glog>>

\* The message event of the worker: handleMessage on the oldest command.
\* The reply to the command before it has been delivered by then.
EngineHandles ==
    /\ inbox /= <<>>
    /\ outbox = <<>>
    /\ Process(Dequeue(inbox).cmd)
    /\ inbox' = Dequeue(inbox).rest
    /\ UNCHANGED engineFrame

\* The message event of the page: worker.onmessage, lines 433-450, on what
\* the engine posted.
ReplyDelivered ==
    /\ outbox /= <<>>
    /\ \E r \in {workerOnMessage(PageState, outbox[1], appRange, appTarget,
                                  cnow)} :
           /\ lastWorkerUpdate' = r.st.lastWorkerUpdate
           /\ lastChartRender' = r.st.lastChartRender
           /\ view' = r.st.view
           /\ snapshotSlot' = r.st.slot
           /\ fetches' = fetches \cup r.fetches
    /\ outbox' = <<>>
    /\ glog' = [glog EXCEPT !.last = [ev |-> "reply", msg |-> outbox[1]]]
    /\ UNCHANGED <<buffer, currentRange, decimationTarget, now, lastCmd,
                   removed, storeVars, decVars, scn, aggVars, worker, appRange,
                   appTarget, sseVars, cnow, consecutiveFallbacks, watchdogDue,
                   inbox>>

\* The first seconds of the page with the range buttons in use.
FollowInit ==
    PageInit([conns |-> 1, live |-> 0, clicks |-> MaxClicks, slides |-> 0,
              replies |-> 0, clock |-> SeedDue + 1], {Absent})

FollowNext ==
    \/ EngineHandles
    \/ ReplyDelivered
    \/ SelectRange
    \/ PageAdvance
    \/ SeedTimer
    \/ SeedDone

SpecFollow == FollowInit /\ [][FollowNext]_vars

\* The engine stalls on a bad live sample and the watchdog brings it back.
\* Every historical fetch succeeds with samples, and a request or a message
\* takes less than one clock unit: the clock moves on when nothing is in
\* flight.  The run lasts five periods of the watchdog.
RecoverClock == PageStart + 5 * WatchdogInterval * TicksPerSecond + 1

\* The engine stalls within the first half second of the page.
StallBy == SeedDue + 1

NonEmptyOutcomes == {res \in FetchOutcomes : res.ok /\ res.samples /= <<>>}

RecoverInit ==
    PageInit([conns |-> 1, live |-> 1, clicks |-> 0, slides |-> 0,
              replies |-> 0, clock |-> RecoverClock], {Absent})

RecoverAdvance ==
    /\ fetches = {}
    /\ inbox = <<>>
    /\ outbox = <<>>
    /\ PageAdvance

FallbackSucceeds == FallbackFetchedWith(NonEmptyOutcomes)

RecoverNext ==
    \/ EngineHandles
    \/ ReplyDelivered
    \/ RecoverAdvance
    \/ SeedTimer
    \/ FallbackTick
    \/ FallbackSucceeds
    \/ sseOnOpen
    \/ sseOnMessage

\* What the event loops of the page and the worker run by themselves: the
\* timers and the interval, the delivery of queued messages, and the
\* responses of the fetches.
Scheduled ==
    \/ EngineHandles
    \/ ReplyDelivered
    \/ RecoverAdvance
    \/ SeedTimer
    \/ FallbackTick
    \/ FallbackSucceeds

\* A callback that is due is run: the run stops only when nothing is due.
SpecRecover == RecoverInit /\ [][RecoverNext]_vars /\ WF_vars(Scheduled)

---------------------------------------------------------------------------
(* The constructor alone: new CircularBuffer(capacity), then pushes *)

\* Capacities handed to the constructor: a negative one, zero, positive ones.
CtorCapacities == (0 - 1)..Capacity

\* The constructor has no check of its own; new Array(capacity) at line 7
\* throws a RangeError for a negative length and accepts 0.
CircularBufferThrows(capacity) == capacity < 0

\* What (start + 1) % 0 evaluates to, NaN, as a slot index.
NaNIndex == 0 - 2

\* push on a store of capacity 0: length < capacity is false, so lines 16-17
\* run: the item lands in slot start (0, then NaN) and start becomes NaN;
\* length stays 0.
pushAtZeroCapacity(b, item) ==
    [b EXCEPT !.buffer = (b.start :> item) @@ @,
              !.start = NaNIndex]

CtorInit ==
    /\ buffer = NoEntry
    /\ currentRange = DefaultRange
    /\ decimationTarget = DefaultTarget
    /\ now = 0
    /\ outbox = <<>>
    /\ lastCmd = "idle"
    /\ removed = 0 - 1
    /\ StoreIdle
    /\ DecIdle
    /\ scn = NoScn
    /\ RestIdle

Construct ==
    /\ scn = NoScn
    /\ \E capacity \in CtorCapacities :
          /\ buffer' = IF CircularBufferThrows(capacity)
                       THEN buffer
                       ELSE CircularBuffer(capacity)
          /\ scn' = [phase |-> 0, capacity |-> capacity,
                     threw |-> CircularBufferThrows(capacity)]
    /\ UNCHANGED <<currentRange, decimationTarget, now, outbox, lastCmd,
                   removed, storeVars, decVars, restVars>>

CtorPush ==
    /\ buffer /= NoEntry
    /\ Len(hist) < MaxAppends
    /\ \E item \in LiveSamples :
          /\ buffer' = IF buffer.capacity > 0
                       THEN push(buffer, item)
                       ELSE pushAtZeroCapacity(buffer, item)
          /\ hist' = Append(hist, item)
    /\ UNCHANGED <<currentRange, decimationTarget, now, outbox, lastCmd,
                   removed, trimmed, decVars, scn, restVars>>

CtorNext == Construct \/ CtorPush

SpecCtor == CtorInit /\ [][CtorNext]_vars

---------------------------------------------------------------------------
(* Claims *)

Contents == toArray(buffer)

\* The window-filtered slice of the store at the current configuration and
\* clock, by the definition of the window: all samples when the range has no
\* window, else those stamped at or after now - window.
WindowSlice ==
    LET keep == {i \in 1..Len(Contents) :
                    \/ ~HasSpan(currentRange)
                    \/ Contents[i].ts >= now - RANGE_WINDOWS[currentRange]}
        RECURSIVE Pick(_)
        Pick(i) == IF i > Len(Contents) THEN <<>>
                   ELSE (IF i \in keep THEN <<Contents[i]>> ELSE <<>>) \o Pick(i + 1)
    IN  Pick(1)

WellFormed == ~HasNull(Contents)

TimeOrdered ==
    \A i \in 1..(Len(Contents) - 1) : Contents[i].ts <= Contents[i + 1].ts

\* C1: once more than Capacity samples have been appended (and nothing was
\* trimmed), the store holds exactly the Capacity most recently appended
\* ones, oldest to newest, in the order they were appended.
C1_KeepsMostRecent ==
    (trimmed = 0 /\ Len(hist) > Capacity)
        => Contents = SubSeq(hist, Len(hist) - Capacity + 1, Len(hist))

C1_Witness ==
    /\ trimmed = 0
    /\ Len(hist) = Capacity + 2
    /\ hist[1] /= hist[Len(hist)]
    /\ Contents[1] /= Contents[Capacity]

\* C2: in every engine state the store's length is within 0..capacity and its
\* oldest-entry index within 0..capacity-1.
C2_StoreWithinBounds ==
    /\ buffer.length \in 0..buffer.capacity
    /\ buffer.start \in 0..(buffer.capacity - 1)
    /\ buffer.capacity = MAX_CAP

C2_Witness ==
    /\ buffer.length = buffer.capacity
    /\ buffer.start > 0
    /\ lastCmd = "add"

\* C3 as stated: with a bounded window, right after an add, bulkAdd,
\* replaceAll or setRange the store retains no sample stamped before
\* now - window.
C3_Original ==
    (lastCmd \in {"add", "bulkAdd", "replaceAll", "setRange"} /\ HasSpan(currentRange))
        => \A i \in 1..Len(Contents) :
              IsNull(Contents[i])
              \/ Contents[i].ts >= now - RANGE_WINDOWS[currentRange]

\* C3 as amended: right after a command that ran the window eviction (an add,
\* a replaceAll, or a bulkAdd on an empty store, with a bounded window) the
\* oldest retained entry is null or not older than now - window; so when the
\* retained samples are well-formed and in non-decreasing timestamp order,
\* none of them is older than now - window.
C3_EvictsStalePrefix ==
    removed >= 0 =>
        /\ HasSpan(currentRange)
        /\ lastCmd \in {"add", "bulkAdd", "replaceAll"}
        /\ buffer.length > 0 =>
              \/ IsNull(Contents[1])
              \/ Contents[1].ts >= now - RANGE_WINDOWS[currentRange]
        /\ (WellFormed /\ TimeOrdered) =>
              \A i \in 1..Len(Contents) :
                  Contents[i].ts >= now - RANGE_WINDOWS[currentRange]

C3_Witness ==
    /\ removed > 0
    /\ buffer.length > 1
    /\ WellFormed
    /\ TimeOrdered

\* C4: every reply carries the metrics of the window-filtered slice and the
\* decimation of that slice: its count is the slice's length, also when the
\* slice is longer than the target, and its series holds no sample outside
\* the window.
C4_ReplyOverWindowSlice ==
    \A k \in 1..Len(outbox) :
        LET payload == outbox[k].payload
        IN  /\ payload.metrics = computeMetrics(WindowSlice)
            /\ payload.metrics.count = Len(WindowSlice)
            /\ payload.samples = lttbDownsample(WindowSlice, decimationTarget)
            /\ \A j \in 1..Len(payload.samples) :
                  \/ ~HasSpan(currentRange)
                  \/ payload.samples[j].ts >= now - RANGE_WINDOWS[currentRange]

C4_Witness ==
    /\ Len(outbox) = 1
    /\ HasSpan(currentRange)
    /\ outbox[1].payload.metrics.count > decimationTarget
    /\ Len(outbox[1].payload.samples) = decimationTarget
    /\ decimationTarget >= 2

\* C5: decimate(S, T) with |S| <= T returns S unchanged, the empty S included.
C5_IdentityAtOrBelowTarget ==
    (dDone /\ Len(dData) <= dTarget) => dOut = dData

C5_Witness ==
    /\ dDone
    /\ Len(dData) = dTarget
    /\ dTarget >= 3
    /\ dOut = dData

\* C6: decimate(S, T) with T >= 2 and |S| > T returns exactly T points, the
\* first being S's first sample and the last S's last sample.
C6_ExactlyTargetPoints ==
    (dDone /\ dTarget >= 2 /\ Len(dData) > dTarget)
        => /\ Len(dOut) = dTarget
           /\ dOut[1] = dData[1]
           /\ dOut[Len(dOut)] = dData[Len(dData)]

C6_Witness ==
    /\ dDone
    /\ dTarget >= 3
    /\ Len(dData) > dTarget + 1
    /\ Len(dOut) = dTarget
    /\ dData[1] /= dData[Len(dData)]

\* C7 as stated: after bulkAdd(A) then bulkAdd(B) on an empty store, the store
\* holds what bulkAdd(A) left and nothing of B, for every A and B.
C7_Original ==
    scn.phase = 2 => Contents = scn.after

\* C7 as amended: a bulkAdd on a store that holds at least one sample changes
\* nothing; so after bulkAdd(A) then bulkAdd(B) on an empty store, the store
\* holds only what bulkAdd(A) left, provided bulkAdd(A) left at least one
\* sample (A non-empty and not wholly evicted by the window).
C7_SecondSeedIgnored ==
    (scn.phase = 2 /\ scn.after /= <<>>) => Contents = scn.after

C7_Witness ==
    /\ scn.phase = 2
    /\ scn.after /= <<>>
    /\ scn.B /= <<>>
    /\ scn.B /= scn.A
    /\ Contents = scn.after

\* No sample of X lies between the eviction boundary of the first replaceAll
\* and the one in force now.
NoBoundaryCrossed ==
    \/ ~HasSpan(currentRange)
    \/ \A i \in 1..Len(scn.X) :
          ~ (/\ scn.X[i].ts >= scn.t1 - RANGE_WINDOWS[currentRange]
             /\ scn.X[i].ts < now - RANGE_WINDOWS[currentRange])

\* C8: replaceAll(X), snapshot, replaceAll(X), snapshot, with the same window
\* and target and no sample of X crossing the eviction boundary in between,
\* yields two snapshots with identical metrics and series.
C8_ReplaceAllIdempotent ==
    (scn.phase = 4 /\ NoBoundaryCrossed)
        => /\ Len(outbox) = 1
           /\ Len(scn.first) = 1
           /\ outbox[1].type = "snapshot"
           /\ outbox[1].payload.metrics = scn.first[1].payload.metrics
           /\ outbox[1].payload.samples = scn.first[1].payload.samples

C8_Witness ==
    /\ scn.phase = 4
    /\ NoBoundaryCrossed
    /\ HasSpan(currentRange)
    /\ now > scn.t1
    /\ Len(scn.X) > 1
    /\ outbox[1].payload.metrics.count > 0

\* C9: each add, bulkAdd and replaceAll yields exactly one reply, of type
\* update; each snapshot exactly one, of type snapshot; no command yields
\* more than one.
C9_OneReplyPerCommand ==
    /\ Len(outbox) <= 1
    /\ lastCmd \in {"add", "bulkAdd", "replaceAll"}
          => (Len(outbox) = 1 /\ outbox[1].type = "update")
    /\ lastCmd = "snapshot"
          => (Len(outbox) = 1 /\ outbox[1].type = "snapshot")

\* C10 as stated: processing setRange or setDecimation emits no reply.
C10_Original ==
    lastCmd \in {"setRange", "setDecimation"} => outbox = <<>>

\* C10 as amended: setRange and setDecimation reply like every other
\* non-snapshot command: exactly one reply of type update, computed under the
\* configuration the setter has just written; nothing is emitted only when
\* the store holds a null entry (the snapshot computation throws).
C10_SettersReplyUpdate ==
    lastCmd \in {"setRange", "setDecimation"} =>
        IF WellFormed
        THEN /\ Len(outbox) = 1
             /\ outbox[1].type = "update"
             /\ outbox[1].payload.metrics.count = Len(WindowSlice)
             /\ outbox[1].payload.samples
                    = lttbDownsample(WindowSlice, decimationTarget)
        ELSE outbox = <<>>

C10_Witness ==
    /\ lastCmd = "setDecimation"
    /\ Len(outbox) = 1
    /\ outbox[1].type = "update"
    /\ Len(outbox[1].payload.samples) < outbox[1].payload.metrics.count

\* f is the fraction n / d
FracIs(f, n, d) == f /= Absent /\ f.den /= 0 /\ d /= 0 /\ f.num * d = n * f.den

\* C12: aggregate returns count = number of samples, successes + failures =
\* count and packet_loss_pct = 100 * failures / count, 0 when count = 0; on
\* the empty sequence all counts and the loss are 0 and avg, min, max and
\* jitter are absent.
C12_CountsAndLoss ==
    mDone =>
        /\ mOut.count = Len(mData)
        /\ mOut.successes + mOut.failures = mOut.count
        /\ mOut.successes >= 0 /\ mOut.failures >= 0
        /\ IF mOut.count = 0
           THEN FracIs(mOut.packet_loss_pct, 0, 1)
           ELSE FracIs(mOut.packet_loss_pct, 100 * mOut.failures, mOut.count)
        /\ mData = <<>> =>
              /\ mOut.count = 0 /\ mOut.successes = 0 /\ mOut.failures = 0
              /\ FracIs(mOut.packet_loss_pct, 0, 1)
              /\ mOut.avg_latency_ms = Absent
              /\ mOut.min_latency_ms = Absent
              /\ mOut.max_latency_ms = Absent
              /\ mOut.jitter_avg_abs_ms = Absent

C12_Witness ==
    /\ mDone
    /\ mOut.count >= 3
    /\ mOut.failures > 0
    /\ mOut.successes > mOut.failures
    /\ FracIs(mOut.packet_loss_pct, 100, 3)

\* The latencies of the samples with success = true and a present latency,
\* in input order.
LatencySubset ==
    LET Counts(s) == s.success = TRUE /\ s.latency_ms /= NoLat
        kept == SelectSeq(mData, Counts)
    IN  [j \in 1..Len(kept) |-> kept[j].latency_ms]

\* Sum of |q[j] - q[j-1]| over j in 2..Len(q)
SumAbsSteps(q) ==
    LET RECURSIVE Upto(_)
        Upto(j) == IF j < 2 THEN 0 ELSE Abs(q[j] - q[j - 1]) + Upto(j - 1)
    IN  Upto(Len(q))

SumTo(q) ==
    LET RECURSIVE Upto(_)
        Upto(j) == IF j < 1 THEN 0 ELSE q[j] + Upto(j - 1)
    IN  Upto(Len(q))

\* C13: the latency statistics are those of the subset of samples with
\* success = true and a present latency, in input order: avg, min and max are
\* absent exactly when the subset is empty, jitter exactly when it has fewer
\* than 2 entries, else jitter is the mean absolute difference of consecutive
\* entries of the subset; no input (duplicate or unsorted timestamps
\* included) makes the computation fail.
C13_LatencyStatsOverSubset ==
    LET sub == LatencySubset
        n   == Len(sub)
    IN  /\ ~computeMetricsThrows(mData)
        /\ mDone =>
              /\ (mOut.avg_latency_ms = Absent) <=> (n = 0)
              /\ (mOut.min_latency_ms = Absent) <=> (n = 0)
              /\ (mOut.max_latency_ms = Absent) <=> (n = 0)
              /\ (mOut.jitter_avg_abs_ms = Absent) <=> (n < 2)
              /\ n > 0 =>
                    /\ FracIs(mOut.avg_latency_ms, SumTo(sub), n)
                    /\ \E j \in 1..n : FracIs(mOut.min_latency_ms, sub[j], 1)
                    /\ \A j \in 1..n : \E m \in 0..sub[j] :
                          FracIs(mOut.min_latency_ms, m, 1)
                    /\ \E j \in 1..n : FracIs(mOut.max_latency_ms, sub[j], 1)
                    /\ \A j \in 1..n : ~ \E m \in 0..(sub[j] - 1) :
                          FracIs(mOut.max_latency_ms, m, 1)
              /\ n > 1 => FracIs(mOut.jitter_avg_abs_ms, SumAbsSteps(sub), n - 1)

\* The scenario latencies 10, 20, 15 with a failed sample carrying a latency
\* in between and timestamps running backwards: jitter (10 + 5) / 2.
C13_Witness ==
    /\ mDone
    /\ LatencySubset = <<10, 20, 15>>
    /\ Len(mData) = 4
    /\ ~mData[2].success /\ mData[2].latency_ms /= NoLat
    /\ mData[1].ts > mData[2].ts
    /\ FracIs(mOut.jitter_avg_abs_ms, 15, 2)
    /\ FracIs(mOut.avg_latency_ms, 15, 1)

\* The engine state after exactly the first j commands the coordinator
\* sent, each applied at the time the worker handled it.
RECURSIVE Replay(_)
Replay(j) ==
    IF j = 0
    THEN [buffer |-> CircularBuffer(MAX_CAP), currentRange |-> DefaultRange,
          decimationTarget |-> DefaultTarget]
    ELSE LET pre == Replay(j - 1)
         IN  ApplyCommand(pre.buffer, pre.currentRange, pre.decimationTarget,
                          glog.procAt[j], glog.sent[j])

\* C11: commands are handled one at a time in the order they were sent,
\* none skipped, reordered or merged: the commands still queued are the
\* ones sent last, in sending order; the engine's state is the state after
\* exactly the commands handled so far; replies come in the order of their
\* commands, and each reply is the snapshot of the state after exactly the
\* commands sent up to and including its own.
C11_InOrderNoCoalescing ==
    glog.k = 1 =>
        LET done == Len(glog.procAt)
            cur  == Replay(done)
        IN  /\ done + Len(inbox) = Len(glog.sent)
            /\ inbox = SubSeq(glog.sent, done + 1, Len(glog.sent))
            /\ buffer = cur.buffer
            /\ currentRange = cur.currentRange
            /\ decimationTarget = cur.decimationTarget
            /\ \A i \in 1..Len(glog.replies) :
                  LET r  == glog.replies[i]
                      st == Replay(r.idx)
                  IN  /\ r.idx \in 1..done
                      /\ i > 1 => glog.replies[i - 1].idx < r.idx
                      /\ r.type = ReplyType(glog.sent[r.idx])
                      /\ r.payload = prepareSnapshot(st.buffer, st.currentRange,
                                                     st.decimationTarget,
                                                     glog.procAt[r.idx])

\* Three commands were queued together, two are handled, and their two
\* replies differ in type and in content.
C11_Witness ==
    /\ glog.k = 1
    /\ glog.queued = 3
    /\ Len(glog.procAt) = 2
    /\ Len(inbox) = 1
    /\ Len(glog.replies) = 2
    /\ glog.replies[1].type /= glog.replies[2].type
    /\ glog.replies[1].payload /= glog.replies[2].payload

\* The samples of the add commands posted so far, in posting order.
PostedAdds ==
    LET IsAdd(c) == c.type = "add"
        adds == SelectSeq(inbox, IsAdd)
    IN  [j \in 1..Len(adds) |-> adds[j].sample]

\* The parsed values of the live messages received while not paused, in
\* arrival order.
ReceivedLive ==
    LET Counts(m) == ~m.paused /\ m.data.parses
        got == SelectSeq(glog.recv, Counts)
    IN  [j \in 1..Len(got) |-> got[j].data.value]

\* C14: the add commands dispatched are exactly the live samples received
\* while not paused, one add each, in arrival order (none for a message
\* received while paused); a step that toggles pause leaves the transport,
\* its reconnect timers and the attempt counter as they were.
C14_LiveSamplesDispatched ==
    /\ [](PostedAdds = ReceivedLive)
    /\ [][paused' /= paused =>
             UNCHANGED <<sse, conns, timers, sseReconnectAttempts>>]_vars

C14_Witness ==
    /\ Len(glog.recv) = 2
    /\ glog.recv[1].paused /\ glog.recv[1].data.parses
    /\ ~glog.recv[2].paused /\ glog.recv[2].data.parses
    /\ Len(PostedAdds) = 1
    /\ PostedAdds[1] = glog.recv[2].data.value
    /\ sse /= 0
    /\ timers = {}

\* min(1000 * 1.5^k, 15000) as numerator over 2^k
BackoffNum(k) ==
    IF 1000 * (3 ^ k) < 15000 * (2 ^ k) THEN 1000 * (3 ^ k) ELSE 15000 * (2 ^ k)

FracLeq(f, g) == f.num * g.den <= g.num * f.den

\* C15: the reconnect scheduled at the k-th consecutive transport error with
\* no open in between waits min(1000 * 1.5^k, 15000) ms; consecutive delays
\* never decrease and never exceed 15000 ms; an open resets the attempt
\* counter to 0, so the counter equals the number of errors since the last
\* open and the first error after an open waits 1500 ms.
C15_BackoffDelays ==
    /\ sseReconnectAttempts = glog.streak
    /\ Len(glog.delays) = glog.streak
    /\ \A k \in 1..Len(glog.delays) :
          /\ FracIs(glog.delays[k], BackoffNum(k), 2 ^ k)
          /\ FracLeq(glog.delays[k], Frac(15000, 1))
          /\ k > 1 => FracLeq(glog.delays[k - 1], glog.delays[k])
          /\ k = 1 => FracIs(glog.delays[k], 1500, 1)
    /\ \A t \in timers :
          t.kind = "reconnect" =>
              /\ glog.streak >= 1
              /\ t.delay = glog.delays[glog.streak]

\* Eight errors in a row: the sixth delay is below the ceiling, the seventh
\* and eighth are the ceiling.
C15_Witness ==
    /\ glog.streak = 8
    /\ FracIs(glog.delays[3], 3375, 1)
    /\ ~FracIs(glog.delays[6], 15000, 1)
    /\ FracIs(glog.delays[7], 15000, 1)
    /\ FracIs(glog.delays[8], 15000, 1)
    /\ \E t \in timers : t.kind = "reconnect" /\ FracIs(t.delay, 15000, 1)

\* C16: the coordinator is never without both a connection and a pending
\* reconnect timer.
C16_ConnectionOrTimer ==
    sse /= 0 \/ \E t \in timers : t.kind = "reconnect"

\* C17: at most one EventSource is open at any time, and it is the one the
\* coordinator holds; while a reconnect timer is pending the errored
\* connection has been closed; a reconnect timer that runs while a
\* connection exists opens none.
C17_AtMostOneConnection ==
    /\ [](/\ Cardinality(DOMAIN conns) <= 1
          /\ sse = 0 => DOMAIN conns = {}
          /\ sse /= 0 => DOMAIN conns = {sse}
          /\ (\E t \in timers : t.kind = "reconnect") => DOMAIN conns = {})
    /\ [][(sse /= 0 /\ \E t \in timers \ timers' : t.kind = "reconnect")
             => UNCHANGED <<sse, conns>>]_vars

\* After two failures the third EventSource is open, alone.
C17_Witness ==
    /\ glog.made = 3
    /\ glog.recon = 2
    /\ sse /= 0
    /\ DOMAIN conns = {sse}
    /\ conns[sse] = "open"

\* C18 as stated: a backfill fetch that succeeds is followed by a replaceAll
\* carrying the fetched samples, whatever the result contains.
C18_Original ==
    (glog.last /= NoEntry /\ glog.last.ev = "backfill" /\ glog.last.res.ok)
        => glog.last.posted
              = <<[type |-> "replaceAll", samples |-> glog.last.res.samples]>>

\* C18 as amended: every reconnect attempt arms one backfill timer; when it
\* runs, a historical fetch for the coordinator's window of that moment is
\* issued; when the fetch succeeds with a non-empty sample list, exactly one
\* replaceAll carrying those samples is dispatched, and a failed fetch or an
\* empty result dispatches nothing.
C18_BackfillAfterReconnect ==
    /\ glog.recon = glog.bfFired
                      + (IF \E t \in timers : t.kind = "backfill" THEN 1 ELSE 0)
    /\ glog.last /= NoEntry =>
          /\ glog.last.ev = "reconnect" => \E t \in timers : t.kind = "backfill"
          /\ glog.last.ev = "issue" =>
                [kind |-> "backfill", range |-> glog.last.window]
                    \in glog.last.inflight
          /\ glog.last.ev = "backfill" =>
                glog.last.posted
                    = IF glog.last.res.ok /\ glog.last.res.samples /= <<>>
                      THEN <<[type |-> "replaceAll",
                              samples |-> glog.last.res.samples]>>
                      ELSE <<>>

C18_Witness ==
    /\ glog.last /= NoEntry
    /\ glog.last.ev = "backfill"
    /\ glog.recon >= 1
    /\ appRange /= DefaultRange
    /\ Len(glog.last.posted) = 1
    /\ inbox[Len(inbox)].type = "replaceAll"

\* C19: the watchdog callback runs every 4000 ms, and a run issues the
\* direct historical fetch if and only if no engine reply has ever been
\* accepted or more than 5000 ms have passed since the last accepted one;
\* the completion of a fallback fetch, render included, leaves the time of
\* the last accepted reply as it was.
C19_FetchIffStale ==
    /\ [](/\ (glog.accepted = 0) <=> (lastWorkerUpdate = 0)
          /\ glog.accepted > 0 => lastWorkerUpdate = glog.acceptAt
          /\ (glog.last /= NoEntry /\ glog.last.ev = "tick") =>
                /\ glog.last.fetched
                      <=> (glog.accepted = 0 \/ glog.last.at - glog.acceptAt > 5)
                /\ (glog.last.at - 1) % 4 = 0
                /\ watchdogDue = glog.last.at + 4)
    /\ [][(\E f \in fetches \ fetches' : f.kind = "fallback")
             => lastWorkerUpdate' = lastWorkerUpdate]_vars

\* A tick 6000 ms after the last accepted reply issues the fetch.
C19_Witness ==
    /\ glog.last /= NoEntry
    /\ glog.last.ev = "tick"
    /\ glog.accepted = 1
    /\ glog.last.at - glog.acceptAt = 6
    /\ glog.last.fetched
    /\ \E f \in fetches : f.kind = "fallback"

\* C20 as stated: the fallback of a stale tick posts the replaceAll exactly
\* when the tick is the 3rd, 6th, 9th, ... of its run of consecutive stale
\* ticks, every stale tick counted; a non-stale tick resets the counter.
C20_Original ==
    /\ (glog.last /= NoEntry /\ glog.last.ev = "fallback") =>
          ((glog.last.posted /= <<>>) <=> (glog.last.run % 3 = 0))
    /\ (glog.last /= NoEntry /\ glog.last.ev = "tick" /\ ~glog.last.fetched) =>
          consecutiveFallbacks = 0

\* C20 as amended: the counter counts the fallback fetches that completed
\* successfully since it was last reset; the completion that brings it to a
\* multiple of 3 posts one replaceAll with the fetched samples when these
\* are non-empty, and no other completion posts anything; a non-stale tick
\* resets the counter to 0.
C20_ResyncEveryThirdFallback ==
    /\ consecutiveFallbacks = glog.okRun
    /\ (glog.last /= NoEntry /\ glog.last.ev = "fallback") =>
          glog.last.posted
              = IF /\ glog.last.res.ok
                   /\ consecutiveFallbacks % 3 = 0
                   /\ glog.last.res.samples /= <<>>
                THEN <<[type |-> "replaceAll", samples |-> glog.last.res.samples]>>
                ELSE <<>>
    /\ (glog.last /= NoEntry /\ glog.last.ev = "tick" /\ ~glog.last.fetched) =>
          consecutiveFallbacks = 0

\* The first fallback of a run failed: the replaceAll goes out with the
\* fourth stale tick's fallback, the third that succeeded.
C20_Witness ==
    /\ glog.last /= NoEntry
    /\ glog.last.ev = "fallback"
    /\ glog.last.posted /= <<>>
    /\ consecutiveFallbacks = 3
    /\ glog.last.run = 4
    /\ inbox[Len(inbox)].type = "replaceAll"

\* The number of leading entries of q that are samples stamped before cutoff.
RECURSIVE StalePrefix(_, _)
StalePrefix(q, cutoff) ==
    IF q = <<>> \/ IsNull(Head(q)) THEN 0
    ELSE IF Head(q).ts >= cutoff THEN 0
    ELSE 1 + StalePrefix(Tail(q), cutoff)

\* C30: trimBefore(cutoff) removes an oldest-first prefix and nothing else:
\* what remains is the rest of the former contents in the same order, every
\* removed entry is a sample stamped before the cutoff, removal ends at the
\* first entry that is not one (so no sample stamped at or after the cutoff
\* is removed, and none behind it either), the slots and the capacity are
\* untouched, and on an empty store nothing changes.
C30_TrimRemovesStalePrefixOnly ==
    removed >= 0 =>
        LET was == toArray(scn.before)
            k   == removed
        IN  /\ k = StalePrefix(was, scn.cutoff)
            /\ Contents = SubSeq(was, k + 1, Len(was))
            /\ \A i \in 1..k : ~IsNull(was[i]) /\ was[i].ts < scn.cutoff
            /\ \A i \in 1..Len(was) :
                  (~IsNull(was[i]) /\ was[i].ts >= scn.cutoff) =>
                      i > k /\ Contents[i - k] = was[i]
            /\ buffer.buffer = scn.before.buffer
            /\ buffer.capacity = scn.before.capacity
            /\ scn.before.length = 0 => buffer = scn.before

\* One stale sample is removed; the first retained one is stamped at the
\* cutoff and a stale sample behind it stays, in its place.
C30_Witness ==
    /\ removed = 1
    /\ buffer.length = 2
    /\ scn.before.start > 0
    /\ WellFormed
    /\ Contents[1].ts = scn.cutoff
    /\ Contents[2].ts < scn.cutoff

C27_InvalidTargetClamped ==
    (WellFormed /\ lastCmd /= "idle" /\ decimationTarget < 2) =>
        /\ Len(outbox) = 1
        /\ outbox[1].payload.samples = lttbDownsample(WindowSlice, 2)

\* C25: a live message that does not parse, or that parses to something
\* that is not a sample (null), is dropped by the coordinator: the add
\* commands dispatched are exactly the well-formed samples received while
\* not paused.
C25_MalformedDropped ==
    LET Good(m) == ~m.paused /\ m.data.parses /\ ~IsNull(m.data.value)
        got == SelectSeq(glog.recv, Good)
    IN  PostedAdds = [j \in 1..Len(got) |-> got[j].data.value]

\* A step that delivers a message of the worker to worker.onmessage.
ReplyStep == glog'.replies = glog.replies + 1

\* The message such a step delivers is a reply that carries metrics.
ValidReply(msg) == msg.type \in {"update", "snapshot"} /\ ~Rejected(msg)

\* C26: a reply whose payload is missing or has no metrics changes nothing:
\* the metrics panel, the charts, the persisted slot and the time of the
\* last accepted reply stay as they were and no fetch or command is issued;
\* a reply with metrics is processed whatever was ignored before it.
C26_ReplyWithoutMetricsIgnored ==
    /\ [][(ReplyStep /\ ~ValidReply(glog'.last.msg)) =>
             UNCHANGED <<lastWorkerUpdate, lastChartRender, view, snapshotSlot,
                         fetches, inbox, timers, consecutiveFallbacks>>]_vars
    /\ [][(ReplyStep /\ ValidReply(glog'.last.msg)) =>
             /\ lastWorkerUpdate' = cnow
             /\ view'.metrics = glog'.last.msg.payload.metrics]_vars

\* After an ignored reply a reply with metrics was accepted and drawn.
C26_Witness ==
    /\ glog.k = 4
    /\ glog.ignored
    /\ glog.replies = 2
    /\ glog.last.ev = "reply"
    /\ ValidReply(glog.last.msg)
    /\ lastWorkerUpdate = cnow
    /\ view.series = glog.last.msg.payload.samples
    /\ view.series /= <<>>
    /\ snapshotSlot /= Absent

\* A step that draws the charts or writes the slot.
RenderStep == view'.series /= view.series \/ snapshotSlot' /= snapshotSlot

\* C24: a render happens only when at least 750 ms have passed since the
\* previous one, and what it draws is the series of the reply delivered in
\* that very step: a reply that comes earlier changes neither the charts nor
\* the slot, and nothing keeps it for later.
C24_RenderThrottledByDropping ==
    /\ [][RenderStep =>
             /\ snapshotSlot = Absent \/ cnow - snapshotSlot.savedAt >= 3
             /\ ReplyStep
             /\ ValidReply(glog'.last.msg)
             /\ view'.series = glog'.last.msg.payload.samples
             /\ snapshotSlot'.savedAt = cnow]_vars
    /\ [][(ReplyStep /\ snapshotSlot /= Absent
                     /\ cnow - snapshotSlot.savedAt < 3) =>
             UNCHANGED <<view.series, snapshotSlot, lastChartRender>>]_vars

\* A reply with another series came 250 or 500 ms after a render and was
\* dropped: the charts still show the series rendered before.
C24_Witness ==
    /\ glog.k = 4
    /\ glog.replies = 2
    /\ glog.last.ev = "reply"
    /\ ValidReply(glog.last.msg)
    /\ glog.last.msg.payload.samples /= <<>>
    /\ snapshotSlot /= Absent
    /\ cnow - snapshotSlot.savedAt \in {1, 2}
    /\ lastWorkerUpdate = cnow
    /\ view.series /= glog.last.msg.payload.samples
    /\ view.series /= <<>>

\* The reply such a step delivers is drawn: it carries metrics and a
\* non-empty series and is not throttled.
Drawn(msg) ==
    /\ ValidReply(msg)
    /\ msg.payload.samples /= <<>>
    /\ cnow - lastChartRender >= 3

Posted(type) == Cardinality({i \in DOMAIN inbox : inbox[i].type = type})

\* The slot the page found when it loaded holds a snapshot.
Readable == "samples" \in DOMAIN glog.slot0

FetchEnds == fetches' /= fetches /\ fetches' \subseteq fetches

\* C28: when a historical fetch (seed, backfill or fallback) fails, the step
\* that handles the failure only takes the fetch off the list of those in
\* flight: no command is posted, the panels, the charts and the slot stay
\* as they are, the counters and the clocks of the coordinator keep their
\* values, the timers and the watchdog stay set, the live transport and the
\* engine are not touched.
C28_FailedFetchChangesNothing ==
    [][(FetchEnds /\ ~glog'.last.res.ok) =>
          UNCHANGED <<inbox, viewVars, lastWorkerUpdate, consecutiveFallbacks,
                      timers, watchdogDue, cnow, sse, conns,
                      sseReconnectAttempts, paused, appRange, pageFrame>>]_vars

\* The seed fetch and a backfill have ended without a command, the fallback
\* fetch has just failed, and the watchdog and a reconnect timer are still
\* set.
C28_Witness ==
    /\ glog.k = 4
    /\ glog.last = [ev |-> "fallback", res |-> [ok |-> FALSE]]
    /\ glog.seedFetches = 1
    /\ glog.seedPosts = 0
    /\ glog.bfFired >= 1
    /\ fetches = {}
    /\ Len(inbox) = 3
    /\ consecutiveFallbacks = 0
    /\ watchdogDue > cnow
    /\ \E t \in timers : t.kind = "reconnect"

\* C21: once the grace timer has run without a reply with a non-empty
\* series before it, one seed fetch has been issued.
C21_SeedAfterGrace ==
    (glog.k = 4 /\ glog.seedFired /\ ~glog.gotSeries) => glog.seedFetches = 1

\* The last n entries of q, all of q when it has no more.
LastN(q, n) == IF Len(q) <= n THEN q ELSE SubSeq(q, Len(q) - n + 1, Len(q))

\* q without its leading run of samples stamped before the cutoff.
AfterEviction(q, cutoff) == SubSeq(q, StalePrefix(q, cutoff) + 1, Len(q))

\* C31: right after replaceAll(X) the store holds the last capacity samples
\* of X, in X's order, less the prefix the window evicts (nothing when the
\* range has no window), and none of the samples it held before.
C31_ReplaceAllRebuilds ==
    scn.phase = 1 =>
      LET kept == LastN(scn.X, buffer.capacity)
      IN  /\ Contents = IF HasSpan(currentRange)
                        THEN AfterEviction(kept, now - RANGE_WINDOWS[currentRange])
                        ELSE kept
          /\ \A i \in 1..Len(Contents), j \in 1..Len(scn.prior) :
                Contents[i] /= scn.prior[j]

\* The store held live samples, X was longer than the capacity, and the
\* window evicted the first of the samples that fitted.
C31_Witness ==
    /\ scn.phase = 1
    /\ "X" \in DOMAIN scn
    /\ Len(scn.prior) >= 2
    /\ Len(scn.X) > buffer.capacity
    /\ removed = 1
    /\ Len(Contents) = buffer.capacity - 1
    /\ Contents = SubSeq(scn.X, 3, Len(scn.X))

\* C32: a snapshot command changes neither the store nor the two config
\* fields; setRange changes the range and nothing else, setDecimation the
\* target and nothing else, so the store keeps the same samples in the same
\* order through all three.
C32_ReadOnlyCommands ==
    /\ [][lastCmd' = "snapshot" =>
             UNCHANGED <<buffer, currentRange, decimationTarget, now>>]_vars
    /\ [][lastCmd' = "setRange" =>
             UNCHANGED <<buffer, decimationTarget, now>>]_vars
    /\ [][lastCmd' = "setDecimation" =>
             UNCHANGED <<buffer, currentRange, now>>]_vars

\* setRange has just selected a window that the oldest retained sample lies
\* outside of, and the sample is still there.
C32_Witness ==
    /\ lastCmd = "setRange"
    /\ HasSpan(currentRange)
    /\ WellFormed
    /\ buffer.length >= 2
    /\ Contents[1].ts < now - RANGE_WINDOWS[currentRange]
    /\ decimationTarget /= DefaultTarget
    /\ Len(outbox) = 1

\* floor(i * b) + 1 with b = (n - 2) / (T - 2): where interior bucket i of
\* an input of n samples begins, as a 0-based input index.
BucketStart(n, T, i) == (i * (n - 2)) \div (T - 2) + 1

\* The decimator's input has the timestamps 0, 1, 2, ... in order, so that
\* the timestamp of an output point is its 0-based input index.
Indexed == \A k \in 1..Len(dData) : dData[k].ts = k - 1

\* C33: for n > T >= 3 the output has one point per interior bucket between
\* the first and the last input sample, the point of bucket i taken from the
\* input indices floor(i*b)+1 .. floor((i+1)*b); so no interior output point
\* is the first or the last input sample.
C33_OnePointPerInteriorBucket ==
    (dDone /\ Indexed /\ dTarget >= 3 /\ Len(dData) > dTarget) =>
       LET n == Len(dData)
           T == dTarget
       IN  /\ Len(dOut) = T
           /\ \A i \in 0..(T - 3) :
                 /\ dOut[i + 2].ts >= BucketStart(n, T, i)
                 /\ dOut[i + 2].ts < BucketStart(n, T, i + 1)
                 /\ dOut[i + 2].ts \notin {0, n - 1}

\* C37: for n > T >= 2 the output is the input read at strictly increasing
\* indices: the order is kept and no input sample is emitted twice.
C37_StrictlyIncreasingIndices ==
    (dDone /\ dTarget >= 2 /\ Len(dData) > dTarget) =>
       \E f \in [1..Len(dOut) -> 1..Len(dData)] :
          /\ \A j \in 1..Len(dOut) : dOut[j] = dData[f[j]]
          /\ \A j \in 1..(Len(dOut) - 1) : f[j] < f[j + 1]

\* The selection the claim describes, as 0-based input indices: bucket i
\* holds the candidates, prev is the point selected for the bucket before
\* (the first sample for bucket 0), and the centroid is that of the next
\* bucket, which for the last interior bucket is the last sample.
RECURSIVE SelectByNextBucket(_, _, _, _, _)
SelectByNextBucket(data, T, i, prev, out) ==
    LET n == Len(data)
    IN  IF i >= T - 2
        THEN Append(out, n - 1)
        ELSE LET cen == Centroid(data, BucketStart(n, T, i + 1),
                                 Min2(BucketStart(n, T, i + 2), n), prev)
                 chosen == ChooseMax(data, prev, cen, BucketStart(n, T, i),
                                     BucketStart(n, T, i + 1), 0 - 1, 0 - 1)
             IN  SelectByNextBucket(data, T, i + 1, chosen, Append(out, chosen))

\* C34: for n > T >= 3 the point of each interior bucket is the earliest
\* candidate of that bucket with the largest triangle area against the
\* point selected for the bucket before and the centroid of the next
\* bucket's entries that have a latency (the point selected before when
\* there is none), a missing latency counting as 0.
C34_MaxAreaAgainstNextBucket ==
    (dDone /\ dTarget >= 3 /\ Len(dData) > dTarget) =>
       LET idx == SelectByNextBucket(dData, dTarget, 0, 0, <<0>>)
       IN  dOut = [j \in 1..Len(idx) |-> dData[idx[j] + 1]]

\* C35: the step that delivers the first accepted reply, when that reply
\* carries an empty series, leaves a seed fetch in flight.
C35_SeedOnEmptyFirstReply ==
    [][(/\ ReplyStep
        /\ ValidReply(glog'.last.msg)
        /\ lastWorkerUpdate = 0
        /\ glog'.last.msg.payload.samples = <<>>) =>
          \E f \in fetches' : f.kind = "seed"]_vars

\* C38: a reply with metrics and a non-empty series that is delivered at
\* least 750 ms after the charts were last redrawn (or before any redraw)
\* is drawn and persisted, whatever replies with an empty series came in
\* between.
C38_EmptyReplyDoesNotThrottle ==
    [][(/\ ReplyStep
        /\ ValidReply(glog'.last.msg)
        /\ glog'.last.msg.payload.samples /= <<>>
        /\ snapshotSlot = Absent \/ cnow - snapshotSlot.savedAt >= 3) =>
          /\ view'.series = glog'.last.msg.payload.samples
          /\ snapshotSlot' /= Absent
          /\ snapshotSlot'.savedAt = cnow]_vars

\* C40 as stated: a step that begins and ends with the coordinator paused
\* posts no add, bulkAdd or replaceAll to the engine.
C40_Original ==
    [][(paused /\ paused') =>
          \A i \in (Len(inbox) + 1)..Len(inbox') :
              inbox'[i].type \notin {"add", "bulkAdd", "replaceAll"}]_vars

\* C40: a step that begins and ends with the coordinator paused posts no
\* add to the engine; the replaceAll of a backfill is posted all the same.
C40_PauseSuppressesLiveAdds ==
    [][(paused /\ paused') =>
          \A i \in (Len(inbox) + 1)..Len(inbox') :
              inbox'[i].type /= "add"]_vars

\* Live samples arrived while paused and none was posted, and a backfill
\* has replaced the store's contents meanwhile.
C40_Witness ==
    /\ glog.k = 2
    /\ paused
    /\ Len(glog.recv) = 2
    /\ \A i \in 1..2 : /\ glog.recv[i].paused
                        /\ glog.recv[i].data.parses
                        /\ ~IsNull(glog.recv[i].data.value)
    /\ Posted("add") = 0
    /\ Posted("replaceAll") = 1

\* C36: once a range button has been clicked and the engine has handled
\* every command posted to it, the engine's window is the one the
\* coordinator shows and tags its persisted snapshots with.
C36_EngineWindowFollows ==
    (glog.k = 4 /\ glog.clicks >= 1 /\ inbox = <<>> /\ outbox = <<>>)
        => currentRange = appRange

\* The store holds a null entry, so that every command of the engine throws
\* before it replies.
Stalled == glog.k = 4 /\ HasNull(Contents) /\ cnow <= StallBy

\* The engine has just rebuilt its store from a replaceAll.
Resynced == lastCmd = "replaceAll" /\ ~HasNull(Contents) /\ buffer.length > 0

\* A tick of the watchdog has just found the engine not stale, the last
\* command the engine handled being the replaceAll.
Recovered ==
    /\ Resynced
    /\ glog.last = [ev |-> "tick", fetched |-> FALSE]
    /\ consecutiveFallbacks = 0
    /\ lastWorkerUpdate > 0
    /\ ~IsStalePage(lastWorkerUpdate, cnow)

\* C39: once the engine has stalled on a bad stored sample, with every
\* historical fetch succeeding with samples and every due callback run, the
\* watchdog eventually has a replaceAll rebuild the store, and after that a
\* tick of the watchdog finds the engine's replies fresh again and sets the
\* fallback counter to 0.
C39_WatchdogRecoversEngine ==
    /\ Stalled ~> Resynced
    /\ Stalled ~> Recovered

\* The engine took a null live sample and did not answer, the third
\* fallback replaced the store, the engine answered, and the next tick
\* found it fresh.
C39_Witness ==
    /\ glog.k = 4
    /\ Len(glog.recv) = 1
    /\ glog.recv[1].data.parses
    /\ IsNull(glog.recv[1].data.value)
    /\ Recovered
    /\ Contents = <<MkSample(1, TRUE, 20)>>
    /\ view.series /= <<>>
    /\ cnow > PageStart + 4 * WatchdogInterval * TicksPerSecond

=============================================================================
